---------------------------- MODULE Spec2Model ----------------------------
(***************************************************************************)
(* Model of the answer-analysis service of backend/agents_ai (main.py):   *)
(* the pure grading function analyze_student_answer and the               *)
(* POST /analyze-answers handler built on it.                              *)
(*                                                                         *)
(* A Python str is modelled as a sequence of one-character strings, so     *)
(* that lower(), strip(), split(), len() and the `in` substring test are   *)
(* computed character by character as Python computes them.               *)
(***************************************************************************)
EXTENDS Integers, Sequences, FiniteSets, TLC

VARIABLES
    query,      \* arguments of the last analyze_student_answer call
    result,     \* the dict that call returned
    request,    \* body of the last POST /analyze-answers request
    response,   \* the JSONResponse the handler returned for it
    quizRequest,    \* body of the last POST /generate-quiz request
    upstream,       \* how the question source behaves for that request
    quizResponse,   \* the JSONResponse generate_quiz returned for it
    handlers,       \* the frames of the analyze_answers calls in progress
    courses,        \* the list courses of backend.py
    creating        \* new_course of each create_course call in progress

vars ==
    <<query, result, request, response, quizRequest, upstream, quizResponse,
      handlers, courses, creating>>

\* the state of the course store
storeVars == <<courses, creating>>

\* the state of POST /generate-quiz
quizVars == <<quizRequest, upstream, quizResponse>>

---------------------------------------------------------------------------
(* Bounds of the model. *)

\* answers are padded up to MinLength + MaxExtra characters
MaxExtra == 1
\* the course store holds at most MaxCourses courses, those being created
\* included
MaxCourses == 3
\* texts of the question source are enumerated up to MaxTokens tokens
MaxTokens == 4
\* a request carries at most MaxPairs questions and at most MaxPairs answers
MaxPairs == 2

---------------------------------------------------------------------------
(* Python str primitives. *)

UpperLetters ==
    <<"A", "B", "C", "D", "E", "F", "G", "H", "I", "J", "K", "L", "M",
      "N", "O", "P", "Q", "R", "S", "T", "U", "V", "W", "X", "Y", "Z">>

LowerLetters ==
    <<"a", "b", "c", "d", "e", "f", "g", "h", "i", "j", "k", "l", "m",
      "n", "o", "p", "q", "r", "s", "t", "u", "v", "w", "x", "y", "z">>

\* the ASCII characters str.strip() and str.split() treat as whitespace
\* (Python also strips the vertical tab and the Unicode spaces, which no input here holds)
Whitespace == {" ", "\t", "\n", "\r", "\f"}

LowerChar(c) ==
    IF \E i \in DOMAIN UpperLetters : UpperLetters[i] = c
    THEN LowerLetters[CHOOSE i \in DOMAIN UpperLetters : UpperLetters[i] = c]
    ELSE c

\* str.lower()
Lower(s) == [i \in 1..Len(s) |-> LowerChar(s[i])]

\* str.strip(): drop leading and trailing whitespace
Strip(s) ==
    LET nonws == {i \in 1..Len(s) : s[i] \notin Whitespace}
        Min(S) == CHOOSE x \in S : \A y \in S : x <= y
        Max(S) == CHOOSE x \in S : \A y \in S : x >= y
    IN  IF nonws = {} THEN <<>> ELSE SubSeq(s, Min(nonws), Max(nonws))

\* `sub in s` on strings: sub occurs as a contiguous substring of s
Contains(s, sub) ==
    \E i \in 0..(Len(s) - Len(sub)) :
        \A j \in 1..Len(sub) : s[i + j] = sub[j]

\* str.split() without arguments: the set of maximal whitespace-free runs.
\* Both callers only add the tokens to a set, so the order is not kept.
SplitTokens(s) ==
    LET starts == {i \in 1..Len(s) :
                      /\ s[i] \notin Whitespace
                      /\ (i = 1 \/ s[i - 1] \in Whitespace)}
        EndOf(i) == CHOOSE j \in i..Len(s) :
                      /\ \A k \in i..j : s[k] \notin Whitespace
                      /\ (j = Len(s) \/ s[j + 1] \in Whitespace)
    IN  {SubSeq(s, i, EndOf(i)) : i \in starts}

RECURSIVE SetToSeq(_)
\* list(a_set): the elements once each, in an order that does not matter here
SetToSeq(S) ==
    IF S = {} THEN <<>>
    ELSE LET x == CHOOSE y \in S : TRUE
         IN  <<x>> \o SetToSeq(S \ {x})

---------------------------------------------------------------------------
(* Substring patterns tested by the topic decision list (main.py:513-561). *)
P_python == <<"p", "y", "t", "h", "o", "n">>
P_feature == <<"f", "e", "a", "t", "u", "r", "e">>
P_popular == <<"p", "o", "p", "u", "l", "a", "r">>
P_variable == <<"v", "a", "r", "i", "a", "b", "l", "e">>
P_list == <<"l", "i", "s", "t">>
P_tuple == <<"t", "u", "p", "l", "e">>
P_module == <<"m", "o", "d", "u", "l", "e">>
P_package == <<"p", "a", "c", "k", "a", "g", "e">>
P_exception == <<"e", "x", "c", "e", "p", "t", "i", "o", "n">>
P_machine_learning == <<"m", "a", "c", "h", "i", "n", "e", " ", "l", "e", "a", "r", "n", "i", "n", "g">>
P_differ == <<"d", "i", "f", "f", "e", "r">>
P_traditional == <<"t", "r", "a", "d", "i", "t", "i", "o", "n", "a", "l">>
P_supervised == <<"s", "u", "p", "e", "r", "v", "i", "s", "e", "d">>
P_unsupervised == <<"u", "n", "s", "u", "p", "e", "r", "v", "i", "s", "e", "d">>
P_training == <<"t", "r", "a", "i", "n", "i", "n", "g">>
P_test == <<"t", "e", "s", "t">>
P_overfitting == <<"o", "v", "e", "r", "f", "i", "t", "t", "i", "n", "g">>
P_evaluation == <<"e", "v", "a", "l", "u", "a", "t", "i", "o", "n">>
P_metric == <<"m", "e", "t", "r", "i", "c">>
P_neural == <<"n", "e", "u", "r", "a", "l">>
P_deep_learning == <<"d", "e", "e", "p", " ", "l", "e", "a", "r", "n", "i", "n", "g">>
P_basic_structure == <<"b", "a", "s", "i", "c", " ", "s", "t", "r", "u", "c", "t", "u", "r", "e">>
P_structure == <<"s", "t", "r", "u", "c", "t", "u", "r", "e">>
P_activation == <<"a", "c", "t", "i", "v", "a", "t", "i", "o", "n">>
P_cnn == <<"c", "n", "n">>
P_convolutional == <<"c", "o", "n", "v", "o", "l", "u", "t", "i", "o", "n", "a", "l">>
P_backpropagation == <<"b", "a", "c", "k", "p", "r", "o", "p", "a", "g", "a", "t", "i", "o", "n">>
P_transfer == <<"t", "r", "a", "n", "s", "f", "e", "r">>
P_data == <<"d", "a", "t", "a">>
P_analytics == <<"a", "n", "a", "l", "y", "t", "i", "c", "s">>
P_workflow == <<"w", "o", "r", "k", "f", "l", "o", "w">>
P_steps == <<"s", "t", "e", "p", "s">>
P_descriptive == <<"d", "e", "s", "c", "r", "i", "p", "t", "i", "v", "e">>
P_inferential == <<"i", "n", "f", "e", "r", "e", "n", "t", "i", "a", "l">>
P_missing == <<"m", "i", "s", "s", "i", "n", "g">>
P_engineering == <<"e", "n", "g", "i", "n", "e", "e", "r", "i", "n", "g">>
P_visualization == <<"v", "i", "s", "u", "a", "l", "i", "z", "a", "t", "i", "o", "n">>

(* The fixed keyword lists of the topic table (main.py:515-562). *)
KW_PythonFeature ==
    <<<<"r", "e", "a", "d", "a", "b", "i", "l", "i", "t", "y">>,
       <<"e", "a", "s", "y">>,
       <<"s", "i", "m", "p", "l", "e">>,
       <<"l", "i", "b", "r", "a", "r", "i", "e", "s">>,
       <<"v", "e", "r", "s", "a", "t", "i", "l", "e">>,
       <<"i", "n", "t", "e", "r", "p", "r", "e", "t", "e", "d">>>>
KW_PythonVariable ==
    <<<<"d", "y", "n", "a", "m", "i", "c">>,
       <<"t", "y", "p", "i", "n", "g">>,
       <<"d", "e", "c", "l", "a", "r", "a", "t", "i", "o", "n">>,
       <<"a", "s", "s", "i", "g", "n", "m", "e", "n", "t">>,
       <<"t", "y", "p", "e">>>>
KW_PythonListTuple ==
    <<<<"m", "u", "t", "a", "b", "l", "e">>,
       <<"i", "m", "m", "u", "t", "a", "b", "l", "e">>,
       <<"p", "a", "r", "e", "n", "t", "h", "e", "s", "e", "s">>,
       <<"b", "r", "a", "c", "k", "e", "t", "s">>,
       <<"m", "o", "d", "i", "f", "y">>>>
KW_PythonModule ==
    <<<<"i", "m", "p", "o", "r", "t">>,
       <<"o", "r", "g", "a", "n", "i", "z", "a", "t", "i", "o", "n">>,
       <<"r", "e", "u", "s", "e">>,
       <<"n", "a", "m", "e", "s", "p", "a", "c", "e">>,
       <<"l", "i", "b", "r", "a", "r", "y">>>>
KW_PythonException ==
    <<<<"t", "r", "y">>,
       <<"e", "x", "c", "e", "p", "t">>,
       <<"c", "a", "t", "c", "h">>,
       <<"h", "a", "n", "d", "l", "e">>,
       <<"e", "r", "r", "o", "r">>,
       <<"f", "i", "n", "a", "l", "l", "y">>>>
KW_MLDiffer ==
    <<<<"d", "a", "t", "a">>,
       <<"p", "a", "t", "t", "e", "r", "n", "s">>,
       <<"a", "l", "g", "o", "r", "i", "t", "h", "m">>,
       <<"e", "x", "p", "l", "i", "c", "i", "t">>,
       <<"p", "r", "o", "g", "r", "a", "m", "m", "i", "n", "g">>,
       <<"l", "e", "a", "r", "n">>>>
KW_MLSupervised ==
    <<<<"l", "a", "b", "e", "l", "e", "d">>,
       <<"u", "n", "l", "a", "b", "e", "l", "e", "d">>,
       <<"t", "a", "r", "g", "e", "t">>,
       <<"c", "l", "a", "s", "s", "i", "f", "i", "c", "a", "t", "i", "o", "n">>,
       <<"c", "l", "u", "s", "t", "e", "r", "i", "n", "g">>>>
KW_MLTrainTest ==
    <<<<"g", "e", "n", "e", "r", "a", "l", "i", "z", "a", "t", "i", "o", "n">>,
       <<"v", "a", "l", "i", "d", "a", "t", "i", "o", "n">>,
       <<"o", "v", "e", "r", "f", "i", "t", "t", "i", "n", "g">>,
       <<"p", "e", "r", "f", "o", "r", "m", "a", "n", "c", "e">>,
       <<"e", "v", "a", "l", "u", "a", "t", "e">>>>
KW_MLOverfitting ==
    <<<<"r", "e", "g", "u", "l", "a", "r", "i", "z", "a", "t", "i", "o", "n">>,
       <<"v", "a", "l", "i", "d", "a", "t", "i", "o", "n">>,
       <<"g", "e", "n", "e", "r", "a", "l", "i", "z", "e">>,
       <<"c", "o", "m", "p", "l", "e", "x">>,
       <<"f", "l", "e", "x", "i", "b", "l", "e">>>>
KW_MLEvaluation ==
    <<<<"a", "c", "c", "u", "r", "a", "c", "y">>,
       <<"p", "r", "e", "c", "i", "s", "i", "o", "n">>,
       <<"r", "e", "c", "a", "l", "l">>,
       <<"f", "1">>,
       <<"a", "u", "c">>,
       <<"r", "o", "c">>>>
KW_NNStructure ==
    <<<<"i", "n", "p", "u", "t">>,
       <<"h", "i", "d", "d", "e", "n">>,
       <<"o", "u", "t", "p", "u", "t">>,
       <<"l", "a", "y", "e", "r">>,
       <<"w", "e", "i", "g", "h", "t">>,
       <<"b", "i", "a", "s">>,
       <<"n", "e", "u", "r", "o", "n">>>>
KW_NNActivation ==
    <<<<"r", "e", "l", "u">>,
       <<"s", "i", "g", "m", "o", "i", "d">>,
       <<"t", "a", "n", "h">>,
       <<"n", "o", "n", "-", "l", "i", "n", "e", "a", "r">>,
       <<"f", "u", "n", "c", "t", "i", "o", "n">>>>
KW_NNCnn ==
    <<<<"f", "i", "l", "t", "e", "r">>,
       <<"k", "e", "r", "n", "e", "l">>,
       <<"c", "o", "n", "v", "o", "l", "u", "t", "i", "o", "n">>,
       <<"p", "o", "o", "l", "i", "n", "g">>,
       <<"f", "e", "a", "t", "u", "r", "e">>,
       <<"i", "m", "a", "g", "e">>>>
KW_NNBackprop ==
    <<<<"g", "r", "a", "d", "i", "e", "n", "t">>,
       <<"d", "e", "s", "c", "e", "n", "t">>,
       <<"e", "r", "r", "o", "r">>,
       <<"w", "e", "i", "g", "h", "t">>,
       <<"u", "p", "d", "a", "t", "e">>,
       <<"l", "e", "a", "r", "n", "i", "n", "g">>>>
KW_NNTransfer ==
    <<<<"p", "r", "e", "t", "r", "a", "i", "n", "e", "d">>,
       <<"m", "o", "d", "e", "l">>,
       <<"f", "e", "a", "t", "u", "r", "e">>,
       <<"e", "x", "t", "r", "a", "c", "t", "i", "o", "n">>,
       <<"f", "i", "n", "e", "-", "t", "u", "n", "i", "n", "g">>>>
KW_DataWorkflow ==
    <<<<"c", "o", "l", "l", "e", "c", "t", "i", "o", "n">>,
       <<"c", "l", "e", "a", "n", "i", "n", "g">>,
       <<"e", "x", "p", "l", "o", "r", "a", "t", "i", "o", "n">>,
       <<"a", "n", "a", "l", "y", "s", "i", "s">>,
       <<"v", "i", "s", "u", "a", "l", "i", "z", "a", "t", "i", "o", "n">>,
       <<"i", "n", "t", "e", "r", "p", "r", "e", "t", "a", "t", "i", "o", "n">>>>
KW_DataDescriptive ==
    <<<<"s", "u", "m", "m", "a", "r", "i", "z", "e">>,
       <<"p", "o", "p", "u", "l", "a", "t", "i", "o", "n">>,
       <<"s", "a", "m", "p", "l", "e">>,
       <<"h", "y", "p", "o", "t", "h", "e", "s", "i", "s">>,
       <<"t", "e", "s", "t", "i", "n", "g">>,
       <<"i", "n", "f", "e", "r", "e", "n", "c", "e">>>>
KW_DataMissing ==
    <<<<"i", "m", "p", "u", "t", "a", "t", "i", "o", "n">>,
       <<"d", "e", "l", "e", "t", "i", "o", "n">>,
       <<"m", "e", "a", "n">>,
       <<"m", "e", "d", "i", "a", "n">>,
       <<"m", "o", "d", "e">>,
       <<"r", "e", "g", "r", "e", "s", "s", "i", "o", "n">>>>
KW_DataFeatureEng ==
    <<<<"t", "r", "a", "n", "s", "f", "o", "r", "m", "a", "t", "i", "o", "n">>,
       <<"s", "e", "l", "e", "c", "t", "i", "o", "n">>,
       <<"c", "r", "e", "a", "t", "i", "o", "n">>,
       <<"n", "o", "r", "m", "a", "l", "i", "z", "a", "t", "i", "o", "n">>,
       <<"s", "c", "a", "l", "i", "n", "g">>>>
KW_DataVisualization ==
    <<<<"c", "h", "a", "r", "t">>,
       <<"g", "r", "a", "p", "h">>,
       <<"p", "l", "o", "t">>,
       <<"d", "a", "s", "h", "b", "o", "a", "r", "d">>,
       <<"h", "i", "s", "t", "o", "g", "r", "a", "m">>,
       <<"s", "c", "a", "t", "t", "e", "r">>>>

(* The stopword list of the generic branch (main.py:573). *)
StopWords ==
    {<<"w", "h", "a", "t">>,
     <<"e", "x", "p", "l", "a", "i", "n">>,
     <<"d", "e", "s", "c", "r", "i", "b", "e">>,
     <<"d", "i", "s", "c", "u", "s", "s">>,
     <<"h", "o", "w">>,
     <<"w", "h", "e", "n">>,
     <<"w", "h", "e", "r", "e">>,
     <<"w", "h", "i", "c", "h">>,
     <<"t", "h", "i", "s">>,
     <<"t", "h", "a", "t">>,
     <<"t", "h", "e", "s", "e">>,
     <<"t", "h", "o", "s", "e">>}

(* What is machine learning and how does it differ from traditional programming? *)
Q_MLDiffer ==
    <<"W", "h", "a", "t", " ", "i", "s", " ", "m", "a", "c", "h", "i", "n", "e", " ", "l", "e", "a", "r", "n", "i", "n", "g", " ", "a", "n", "d", " ", "h", "o", "w", " ", "d", "o", "e", "s", " ", "i", "t", " ", "d", "i", "f", "f", "e", "r", " ", "f", "r", "o", "m", " ", "t", "r", "a", "d", "i", "t", "i", "o", "n", "a", "l", " ", "p", "r", "o", "g", "r", "a", "m", "m", "i", "n", "g", "?">>
(* Is Machine Learning better than traditional software? *)
Q_MLTraditional ==
    <<"I", "s", " ", "M", "a", "c", "h", "i", "n", "e", " ", "L", "e", "a", "r", "n", "i", "n", "g", " ", "b", "e", "t", "t", "e", "r", " ", "t", "h", "a", "n", " ", "t", "r", "a", "d", "i", "t", "i", "o", "n", "a", "l", " ", "s", "o", "f", "t", "w", "a", "r", "e", "?">>
(* the empty question, lecture title and course name *)
Q_Empty == <<>>
T_Empty == <<>>
C_Empty == <<>>
(* What is Machine Learning? *)
Q_MLPlain ==
    <<"W", "h", "a", "t", " ", "i", "s", " ", "M", "a", "c", "h", "i", "n", "e", " ", "L", "e", "a", "r", "n", "i", "n", "g", "?">>
(* How are variables declared in Python? *)
Q_PyVariable ==
    <<"H", "o", "w", " ", "a", "r", "e", " ", "v", "a", "r", "i", "a", "b", "l", "e", "s", " ", "d", "e", "c", "l", "a", "r", "e", "d", " ", "i", "n", " ", "P", "y", "t", "h", "o", "n", "?">>
(* How do you handle missing data? *)
Q_DataMissing ==
    <<"H", "o", "w", " ", "d", "o", " ", "y", "o", "u", " ", "h", "a", "n", "d", "l", "e", " ", "m", "i", "s", "s", "i", "n", "g", " ", "d", "a", "t", "a", "?">>
(* Explain the Photosynthesis process *)
Q_Generic ==
    <<"E", "x", "p", "l", "a", "i", "n", " ", "t", "h", "e", " ", "P", "h", "o", "t", "o", "s", "y", "n", "t", "h", "e", "s", "i", "s", " ", "p", "r", "o", "c", "e", "s", "s">>
(* Intro to ML *)
T_IntroML ==
    <<"I", "n", "t", "r", "o", " ", "t", "o", " ", "M", "L">>
(* Python Basics *)
T_PythonBasics ==
    <<"P", "y", "t", "h", "o", "n", " ", "B", "a", "s", "i", "c", "s">>
(* What Plants Do *)
T_WhatPlants ==
    <<"W", "h", "a", "t", " ", "P", "l", "a", "n", "t", "s", " ", "D", "o">>
(* CS101 *)
C_CS101 ==
    <<"C", "S", "1", "0", "1">>
(* Intro to Machine Learning *)
C_IntroMachineLearning ==
    <<"I", "n", "t", "r", "o", " ", "t", "o", " ", "M", "a", "c", "h", "i", "n", "e", " ", "L", "e", "a", "r", "n", "i", "n", "g">>
(*  *)
B_Empty ==
    <<>>
(*  \t\n *)
B_Whitespace ==
    <<" ", "\t", "\n">>
(* idk *)
B_Idk ==
    <<"i", "d", "k">>
(* Machine learning uses data and algorithms to learn patterns instead of explicit programming rules. *)
B_ML6 ==
    <<"M", "a", "c", "h", "i", "n", "e", " ", "l", "e", "a", "r", "n", "i", "n", "g", " ", "u", "s", "e", "s", " ", "d", "a", "t", "a", " ", "a", "n", "d", " ", "a", "l", "g", "o", "r", "i", "t", "h", "m", "s", " ", "t", "o", " ", "l", "e", "a", "r", "n", " ", "p", "a", "t", "t", "e", "r", "n", "s", " ", "i", "n", "s", "t", "e", "a", "d", " ", "o", "f", " ", "e", "x", "p", "l", "i", "c", "i", "t", " ", "p", "r", "o", "g", "r", "a", "m", "m", "i", "n", "g", " ", "r", "u", "l", "e", "s", ".">>
(* It uses Data and ALGORITHMS to learn patterns from explicit examples given to it. *)
B_ML5 ==
    <<"I", "t", " ", "u", "s", "e", "s", " ", "D", "a", "t", "a", " ", "a", "n", "d", " ", "A", "L", "G", "O", "R", "I", "T", "H", "M", "S", " ", "t", "o", " ", "l", "e", "a", "r", "n", " ", "p", "a", "t", "t", "e", "r", "n", "s", " ", "f", "r", "o", "m", " ", "e", "x", "p", "l", "i", "c", "i", "t", " ", "e", "x", "a", "m", "p", "l", "e", "s", " ", "g", "i", "v", "e", "n", " ", "t", "o", " ", "i", "t", ".">>
(* Data, algorithms, learn, patterns *)
B_ML4 ==
    <<"D", "a", "t", "a", ",", " ", "a", "l", "g", "o", "r", "i", "t", "h", "m", "s", ",", " ", "l", "e", "a", "r", "n", ",", " ", "p", "a", "t", "t", "e", "r", "n", "s">>
(* data patterns learn *)
B_ML3 ==
    <<"d", "a", "t", "a", " ", "p", "a", "t", "t", "e", "r", "n", "s", " ", "l", "e", "a", "r", "n">>
(* learn data *)
B_ML2 ==
    <<"l", "e", "a", "r", "n", " ", "d", "a", "t", "a">>
(* Data *)
B_ML1 ==
    <<"D", "a", "t", "a">>
(* Dynamic typing: no declaration, an assignment sets the type *)
B_Py5 ==
    <<"D", "y", "n", "a", "m", "i", "c", " ", "t", "y", "p", "i", "n", "g", ":", " ", "n", "o", " ", "d", "e", "c", "l", "a", "r", "a", "t", "i", "o", "n", ",", " ", "a", "n", " ", "a", "s", "s", "i", "g", "n", "m", "e", "n", "t", " ", "s", "e", "t", "s", " ", "t", "h", "e", " ", "t", "y", "p", "e">>
(* dynamic typing by assignment *)
B_Py3 ==
    <<"d", "y", "n", "a", "m", "i", "c", " ", "t", "y", "p", "i", "n", "g", " ", "b", "y", " ", "a", "s", "s", "i", "g", "n", "m", "e", "n", "t">>
(* Photosynthesis is the process that plants use to make food *)
B_Gen ==
    <<"P", "h", "o", "t", "o", "s", "y", "n", "t", "h", "e", "s", "i", "s", " ", "i", "s", " ", "t", "h", "e", " ", "p", "r", "o", "c", "e", "s", "s", " ", "t", "h", "a", "t", " ", "p", "l", "a", "n", "t", "s", " ", "u", "s", "e", " ", "t", "o", " ", "m", "a", "k", "e", " ", "f", "o", "o", "d">>
(* datapatternsalgorithmexplicitprogramminglearn *)
B_ML6Short ==
    <<"d", "a", "t", "a", "p", "a", "t", "t", "e", "r", "n", "s", "a", "l", "g", "o", "r", "i", "t", "h", "m", "e", "x", "p", "l", "i", "c", "i", "t", "p", "r", "o", "g", "r", "a", "m", "m", "i", "n", "g", "l", "e", "a", "r", "n">>
(* data patterns algorithm explicit learn *)
B_ML5Short ==
    <<"d", "a", "t", "a", " ", "p", "a", "t", "t", "e", "r", "n", "s", " ", "a", "l", "g", "o", "r", "i", "t", "h", "m", " ", "e", "x", "p", "l", "i", "c", "i", "t", " ", "l", "e", "a", "r", "n">>
(* dynamic typing declaration assignment type *)
B_Py5Short ==
    <<"d", "y", "n", "a", "m", "i", "c", " ", "t", "y", "p", "i", "n", "g", " ", "d", "e", "c", "l", "a", "r", "a", "t", "i", "o", "n", " ", "a", "s", "s", "i", "g", "n", "m", "e", "n", "t", " ", "t", "y", "p", "e">>

(* The question lists of the static bank (main.py:386-416) and the        *)
(* hard-coded list of the crew and kickoff error responses (main.py:257-263). *)
BankPython ==
    <<<<"E", "x", "p", "l", "a", "i", "n", " ", "t", "h", "e", " ", "k", "e", "y", " ", "f", "e", "a", "t", "u", "r", "e", "s", " ", "o", "f", " ", "P", "y", "t", "h", "o", "n", " ", "t", "h", "a", "t", " ", "m", "a", "k", "e", " ", "i", "t", " ", "p", "o", "p", "u", "l", "a", "r", " ", "f", "o", "r", " ", "b", "e", "g", "i", "n", "n", "e", "r", "s", ".">>,
      <<"H", "o", "w", " ", "d", "o", "e", "s", " ", "P", "y", "t", "h", "o", "n", " ", "h", "a", "n", "d", "l", "e", " ", "v", "a", "r", "i", "a", "b", "l", "e", " ", "d", "e", "c", "l", "a", "r", "a", "t", "i", "o", "n", "s", " ", "d", "i", "f", "f", "e", "r", "e", "n", "t", "l", "y", " ", "f", "r", "o", "m", " ", "l", "a", "n", "g", "u", "a", "g", "e", "s", " ", "l", "i", "k", "e", " ", "J", "a", "v", "a", " ", "o", "r", " ", "C", "+", "+", "?">>,
      <<"D", "e", "s", "c", "r", "i", "b", "e", " ", "t", "h", "e", " ", "d", "i", "f", "f", "e", "r", "e", "n", "c", "e", " ", "b", "e", "t", "w", "e", "e", "n", " ", "l", "i", "s", "t", "s", " ", "a", "n", "d", " ", "t", "u", "p", "l", "e", "s", " ", "i", "n", " ", "P", "y", "t", "h", "o", "n", ".">>,
      <<"W", "h", "a", "t", " ", "a", "r", "e", " ", "P", "y", "t", "h", "o", "n", " ", "m", "o", "d", "u", "l", "e", "s", " ", "a", "n", "d", " ", "p", "a", "c", "k", "a", "g", "e", "s", "?", " ", "H", "o", "w", " ", "d", "o", " ", "t", "h", "e", "y", " ", "h", "e", "l", "p", " ", "w", "i", "t", "h", " ", "c", "o", "d", "e", " ", "o", "r", "g", "a", "n", "i", "z", "a", "t", "i", "o", "n", "?">>,
      <<"E", "x", "p", "l", "a", "i", "n", " ", "h", "o", "w", " ", "e", "x", "c", "e", "p", "t", "i", "o", "n", " ", "h", "a", "n", "d", "l", "i", "n", "g", " ", "w", "o", "r", "k", "s", " ", "i", "n", " ", "P", "y", "t", "h", "o", "n", " ", "w", "i", "t", "h", " ", "t", "r", "y", "/", "e", "x", "c", "e", "p", "t", " ", "b", "l", "o", "c", "k", "s", ".">>>>
BankMachineLearning ==
    <<<<"W", "h", "a", "t", " ", "i", "s", " ", "m", "a", "c", "h", "i", "n", "e", " ", "l", "e", "a", "r", "n", "i", "n", "g", " ", "a", "n", "d", " ", "h", "o", "w", " ", "d", "o", "e", "s", " ", "i", "t", " ", "d", "i", "f", "f", "e", "r", " ", "f", "r", "o", "m", " ", "t", "r", "a", "d", "i", "t", "i", "o", "n", "a", "l", " ", "p", "r", "o", "g", "r", "a", "m", "m", "i", "n", "g", "?">>,
      <<"E", "x", "p", "l", "a", "i", "n", " ", "t", "h", "e", " ", "d", "i", "f", "f", "e", "r", "e", "n", "c", "e", " ", "b", "e", "t", "w", "e", "e", "n", " ", "s", "u", "p", "e", "r", "v", "i", "s", "e", "d", " ", "a", "n", "d", " ", "u", "n", "s", "u", "p", "e", "r", "v", "i", "s", "e", "d", " ", "l", "e", "a", "r", "n", "i", "n", "g", ".">>,
      <<"W", "h", "a", "t", " ", "i", "s", " ", "t", "h", "e", " ", "p", "u", "r", "p", "o", "s", "e", " ", "o", "f", " ", "s", "p", "l", "i", "t", "t", "i", "n", "g", " ", "d", "a", "t", "a", " ", "i", "n", "t", "o", " ", "t", "r", "a", "i", "n", "i", "n", "g", " ", "a", "n", "d", " ", "t", "e", "s", "t", " ", "s", "e", "t", "s", "?">>,
      <<"D", "e", "s", "c", "r", "i", "b", "e", " ", "t", "h", "e", " ", "c", "o", "n", "c", "e", "p", "t", " ", "o", "f", " ", "o", "v", "e", "r", "f", "i", "t", "t", "i", "n", "g", " ", "a", "n", "d", " ", "h", "o", "w", " ", "t", "o", " ", "p", "r", "e", "v", "e", "n", "t", " ", "i", "t", ".">>,
      <<"W", "h", "a", "t", " ", "a", "r", "e", " ", "s", "o", "m", "e", " ", "c", "o", "m", "m", "o", "n", " ", "e", "v", "a", "l", "u", "a", "t", "i", "o", "n", " ", "m", "e", "t", "r", "i", "c", "s", " ", "f", "o", "r", " ", "m", "a", "c", "h", "i", "n", "e", " ", "l", "e", "a", "r", "n", "i", "n", "g", " ", "m", "o", "d", "e", "l", "s", "?">>>>
BankNeural ==
    <<<<"E", "x", "p", "l", "a", "i", "n", " ", "t", "h", "e", " ", "b", "a", "s", "i", "c", " ", "s", "t", "r", "u", "c", "t", "u", "r", "e", " ", "o", "f", " ", "a", " ", "n", "e", "u", "r", "a", "l", " ", "n", "e", "t", "w", "o", "r", "k", ".">>,
      <<"W", "h", "a", "t", " ", "i", "s", " ", "t", "h", "e", " ", "r", "o", "l", "e", " ", "o", "f", " ", "a", "c", "t", "i", "v", "a", "t", "i", "o", "n", " ", "f", "u", "n", "c", "t", "i", "o", "n", "s", " ", "i", "n", " ", "n", "e", "u", "r", "a", "l", " ", "n", "e", "t", "w", "o", "r", "k", "s", "?">>,
      <<"H", "o", "w", " ", "d", "o", " ", "c", "o", "n", "v", "o", "l", "u", "t", "i", "o", "n", "a", "l", " ", "n", "e", "u", "r", "a", "l", " ", "n", "e", "t", "w", "o", "r", "k", "s", " ", "(", "C", "N", "N", "s", ")", " ", "d", "i", "f", "f", "e", "r", " ", "f", "r", "o", "m", " ", "r", "e", "g", "u", "l", "a", "r", " ", "n", "e", "u", "r", "a", "l", " ", "n", "e", "t", "w", "o", "r", "k", "s", "?">>,
      <<"W", "h", "a", "t", " ", "i", "s", " ", "b", "a", "c", "k", "p", "r", "o", "p", "a", "g", "a", "t", "i", "o", "n", " ", "a", "n", "d", " ", "w", "h", "y", " ", "i", "s", " ", "i", "t", " ", "i", "m", "p", "o", "r", "t", "a", "n", "t", " ", "f", "o", "r", " ", "t", "r", "a", "i", "n", "i", "n", "g", " ", "n", "e", "u", "r", "a", "l", " ", "n", "e", "t", "w", "o", "r", "k", "s", "?">>,
      <<"D", "e", "s", "c", "r", "i", "b", "e", " ", "t", "h", "e", " ", "c", "o", "n", "c", "e", "p", "t", " ", "o", "f", " ", "t", "r", "a", "n", "s", "f", "e", "r", " ", "l", "e", "a", "r", "n", "i", "n", "g", " ", "i", "n", " ", "d", "e", "e", "p", " ", "l", "e", "a", "r", "n", "i", "n", "g", ".">>>>
BankData ==
    <<<<"W", "h", "a", "t", " ", "a", "r", "e", " ", "t", "h", "e", " ", "k", "e", "y", " ", "s", "t", "e", "p", "s", " ", "i", "n", " ", "a", " ", "t", "y", "p", "i", "c", "a", "l", " ", "d", "a", "t", "a", " ", "a", "n", "a", "l", "y", "s", "i", "s", " ", "w", "o", "r", "k", "f", "l", "o", "w", "?">>,
      <<"E", "x", "p", "l", "a", "i", "n", " ", "t", "h", "e", " ", "d", "i", "f", "f", "e", "r", "e", "n", "c", "e", " ", "b", "e", "t", "w", "e", "e", "n", " ", "d", "e", "s", "c", "r", "i", "p", "t", "i", "v", "e", " ", "a", "n", "d", " ", "i", "n", "f", "e", "r", "e", "n", "t", "i", "a", "l", " ", "s", "t", "a", "t", "i", "s", "t", "i", "c", "s", ".">>,
      <<"H", "o", "w", " ", "d", "o", " ", "y", "o", "u", " ", "h", "a", "n", "d", "l", "e", " ", "m", "i", "s", "s", "i", "n", "g", " ", "d", "a", "t", "a", " ", "i", "n", " ", "a", " ", "d", "a", "t", "a", "s", "e", "t", "?">>,
      <<"W", "h", "a", "t", " ", "i", "s", " ", "f", "e", "a", "t", "u", "r", "e", " ", "e", "n", "g", "i", "n", "e", "e", "r", "i", "n", "g", " ", "a", "n", "d", " ", "w", "h", "y", " ", "i", "s", " ", "i", "t", " ", "i", "m", "p", "o", "r", "t", "a", "n", "t", "?">>,
      <<"D", "e", "s", "c", "r", "i", "b", "e", " ", "d", "i", "f", "f", "e", "r", "e", "n", "t", " ", "v", "i", "s", "u", "a", "l", "i", "z", "a", "t", "i", "o", "n", " ", "t", "e", "c", "h", "n", "i", "q", "u", "e", "s", " ", "a", "n", "d", " ", "w", "h", "e", "n", " ", "y", "o", "u", " ", "w", "o", "u", "l", "d", " ", "u", "s", "e", " ", "e", "a", "c", "h", " ", "o", "n", "e", ".">>>>
StaticQuestions ==
    <<<<"W", "h", "a", "t", " ", "a", "r", "e", " ", "t", "h", "e", " ", "f", "u", "n", "d", "a", "m", "e", "n", "t", "a", "l", " ", "c", "o", "n", "c", "e", "p", "t", "s", " ", "c", "o", "v", "e", "r", "e", "d", " ", "i", "n", " ", "t", "h", "i", "s", " ", "l", "e", "c", "t", "u", "r", "e", "?">>,
      <<"H", "o", "w", " ", "d", "o", " ", "t", "h", "e", "s", "e", " ", "c", "o", "n", "c", "e", "p", "t", "s", " ", "r", "e", "l", "a", "t", "e", " ", "t", "o", " ", "r", "e", "a", "l", "-", "w", "o", "r", "l", "d", " ", "a", "p", "p", "l", "i", "c", "a", "t", "i", "o", "n", "s", "?">>,
      <<"C", "a", "n", " ", "y", "o", "u", " ", "e", "x", "p", "l", "a", "i", "n", " ", "t", "h", "e", " ", "k", "e", "y", " ", "m", "e", "t", "h", "o", "d", "o", "l", "o", "g", "i", "e", "s", " ", "d", "i", "s", "c", "u", "s", "s", "e", "d", "?">>,
      <<"W", "h", "a", "t", " ", "a", "r", "e", " ", "t", "h", "e", " ", "m", "a", "i", "n", " ", "c", "h", "a", "l", "l", "e", "n", "g", "e", "s", " ", "i", "n", " ", "i", "m", "p", "l", "e", "m", "e", "n", "t", "i", "n", "g", " ", "t", "h", "e", "s", "e", " ", "c", "o", "n", "c", "e", "p", "t", "s", "?">>,
      <<"H", "o", "w", " ", "d", "o", "e", "s", " ", "t", "h", "i", "s", " ", "t", "o", "p", "i", "c", " ", "c", "o", "n", "n", "e", "c", "t", " ", "w", "i", "t", "h", " ", "o", "t", "h", "e", "r", " ", "a", "r", "e", "a", "s", " ", "o", "f", " ", "t", "h", "e", " ", "c", "o", "u", "r", "s", "e", "?">>>>

(* The literal pieces of the templated default questions (main.py:420-424). *)
TplCoreConcepts == <<"E", "x", "p", "l", "a", "i", "n", " ", "t", "h", "e", " ", "c", "o", "r", "e", " ", "c", "o", "n", "c", "e", "p", "t", "s", " ", "o", "f", " ">>
TplFullStop == <<".">>
TplHowDoes == <<"H", "o", "w", " ", "d", "o", "e", "s", " ">>
TplRelate == <<" ", "r", "e", "l", "a", "t", "e", " ", "t", "o", " ", "o", "t", "h", "e", "r", " ", "t", "o", "p", "i", "c", "s", " ", "i", "n", " ">>
TplQuestionMark == <<"?">>
TplApplications == <<"W", "h", "a", "t", " ", "a", "r", "e", " ", "t", "h", "e", " ", "p", "r", "a", "c", "t", "i", "c", "a", "l", " ", "a", "p", "p", "l", "i", "c", "a", "t", "i", "o", "n", "s", " ", "o", "f", " ">>
TplChallenges == <<"D", "e", "s", "c", "r", "i", "b", "e", " ", "t", "h", "e", " ", "c", "h", "a", "l", "l", "e", "n", "g", "e", "s", " ", "s", "t", "u", "d", "e", "n", "t", "s", " ", "o", "f", "t", "e", "n", " ", "f", "a", "c", "e", " ", "w", "h", "e", "n", " ", "l", "e", "a", "r", "n", "i", "n", "g", " ", "a", "b", "o", "u", "t", " ">>
TplHowHas == <<"H", "o", "w", " ", "h", "a", "s", " ", "t", "h", "e", " ", "f", "i", "e", "l", "d", " ", "o", "f", " ">>
TplEvolved == <<" ", "e", "v", "o", "l", "v", "e", "d", " ", "o", "v", "e", "r", " ", "t", "i", "m", "e", "?">>

(* Neural Networks 101 *)
T_NeuralNets ==
    <<"N", "e", "u", "r", "a", "l", " ", "N", "e", "t", "w", "o", "r", "k", "s", " ", "1", "0", "1">>
(* Data Cleaning *)
T_DataCleaning ==
    <<"D", "a", "t", "a", " ", "C", "l", "e", "a", "n", "i", "n", "g">>
(* Business Analytics *)
C_BusinessAnalytics ==
    <<"B", "u", "s", "i", "n", "e", "s", "s", " ", "A", "n", "a", "l", "y", "t", "i", "c", "s">>
(* Deep Learning *)
C_DeepLearning ==
    <<"D", "e", "e", "p", " ", "L", "e", "a", "r", "n", "i", "n", "g">>
(* Python Lab *)
C_PythonLab ==
    <<"P", "y", "t", "h", "o", "n", " ", "L", "a", "b">>
(* How do Python variables work in machine learning? *)
Q_PyML ==
    <<"H", "o", "w", " ", "d", "o", " ", "P", "y", "t", "h", "o", "n", " ", "v", "a", "r", "i", "a", "b", "l", "e", "s", " ", "w", "o", "r", "k", " ", "i", "n", " ", "m", "a", "c", "h", "i", "n", "e", " ", "l", "e", "a", "r", "n", "i", "n", "g", "?">>
(* What features make Python variables popular? *)
Q_PyFeatureVariable ==
    <<"W", "h", "a", "t", " ", "f", "e", "a", "t", "u", "r", "e", "s", " ", "m", "a", "k", "e", " ", "P", "y", "t", "h", "o", "n", " ", "v", "a", "r", "i", "a", "b", "l", "e", "s", " ", "p", "o", "p", "u", "l", "a", "r", "?">>
(* How does overfitting differ between training and test data? *)
Q_OverfitDiffer ==
    <<"H", "o", "w", " ", "d", "o", "e", "s", " ", "o", "v", "e", "r", "f", "i", "t", "t", "i", "n", "g", " ", "d", "i", "f", "f", "e", "r", " ", "b", "e", "t", "w", "e", "e", "n", " ", "t", "r", "a", "i", "n", "i", "n", "g", " ", "a", "n", "d", " ", "t", "e", "s", "t", " ", "d", "a", "t", "a", "?">>
(* What is the basic structure of a neural network? *)
Q_NeuralStructure ==
    <<"W", "h", "a", "t", " ", "i", "s", " ", "t", "h", "e", " ", "b", "a", "s", "i", "c", " ", "s", "t", "r", "u", "c", "t", "u", "r", "e", " ", "o", "f", " ", "a", " ", "n", "e", "u", "r", "a", "l", " ", "n", "e", "t", "w", "o", "r", "k", "?">>
(* How does transfer learning reuse neural network data? *)
Q_NeuralTransfer ==
    <<"H", "o", "w", " ", "d", "o", "e", "s", " ", "t", "r", "a", "n", "s", "f", "e", "r", " ", "l", "e", "a", "r", "n", "i", "n", "g", " ", "r", "e", "u", "s", "e", " ", "n", "e", "u", "r", "a", "l", " ", "n", "e", "t", "w", "o", "r", "k", " ", "d", "a", "t", "a", "?">>
(* What is an activation function? *)
Q_Activation ==
    <<"W", "h", "a", "t", " ", "i", "s", " ", "a", "n", " ", "a", "c", "t", "i", "v", "a", "t", "i", "o", "n", " ", "f", "u", "n", "c", "t", "i", "o", "n", "?">>
(* Which data visualization steps matter? *)
Q_DataVisualization ==
    <<"W", "h", "i", "c", "h", " ", "d", "a", "t", "a", " ", "v", "i", "s", "u", "a", "l", "i", "z", "a", "t", "i", "o", "n", " ", "s", "t", "e", "p", "s", " ", "m", "a", "t", "t", "e", "r", "?">>
(* Deep Learning Intro *)
T_DeepLearningIntro ==
    <<"D", "e", "e", "p", " ", "L", "e", "a", "r", "n", "i", "n", "g", " ", "I", "n", "t", "r", "o">>
(* Web Analytics *)
T_WebAnalytics ==
    <<"W", "e", "b", " ", "A", "n", "a", "l", "y", "t", "i", "c", "s">>
(* Python is easy to read and has many libraries. *)
B_PyFeature ==
    <<"P", "y", "t", "h", "o", "n", " ", "i", "s", " ", "e", "a", "s", "y", " ", "t", "o", " ", "r", "e", "a", "d", " ", "a", "n", "d", " ", "h", "a", "s", " ", "m", "a", "n", "y", " ", "l", "i", "b", "r", "a", "r", "i", "e", "s", ".">>
(* Data, data and more DATA: machines learn to learn from the data. *)
B_Repeat ==
    <<"D", "a", "t", "a", ",", " ", "d", "a", "t", "a", " ", "a", "n", "d", " ", "m", "o", "r", "e", " ", "D", "A", "T", "A", ":", " ", "m", "a", "c", "h", "i", "n", "e", "s", " ", "l", "e", "a", "r", "n", " ", "t", "o", " ", "l", "e", "a", "r", "n", " ", "f", "r", "o", "m", " ", "t", "h", "e", " ", "d", "a", "t", "a", ".">>

---------------------------------------------------------------------------
(* analyze_student_answer (main.py:483-623). *)

\* min_length
MinLength == 50

NoAnswerFeedback == "No answer provided. Please try to answer the question."
TooBriefFeedback == "Your answer is too brief. Please provide a more detailed explanation."
ExcellentFeedback == "Excellent answer! You've covered all the key concepts thoroughly."
GoodFeedback == "Good answer. You've addressed most of the important points."
PartialFeedback == "Partial answer. You've mentioned some relevant concepts, but missed others."
NeedsImprovementFeedback == "Your answer needs improvement. Try to include more specific details about key concepts."

\* IsBlank without the strip(): only the empty string counts as no answer
IsBlank_EmptyOnly(answer) == answer = <<>>

\* `not answer or answer.strip() == ""`
IsBlank(answer) == answer = <<>> \/ Strip(answer) = <<>>

PythonKeywords(q) ==
    IF Contains(q, P_feature) \/ Contains(q, P_popular) THEN KW_PythonFeature
    ELSE IF Contains(q, P_variable) THEN KW_PythonVariable
    ELSE IF Contains(q, P_list) /\ Contains(q, P_tuple) THEN KW_PythonListTuple
    ELSE IF Contains(q, P_module) \/ Contains(q, P_package) THEN KW_PythonModule
    ELSE IF Contains(q, P_exception) THEN KW_PythonException
    ELSE <<>>

\* MachineLearningKeywords testing "differ" alone in its first sub-pattern
MachineLearningKeywords_DifferOnly(q) ==
    IF Contains(q, P_differ) THEN KW_MLDiffer
    ELSE IF Contains(q, P_supervised) /\ Contains(q, P_unsupervised) THEN KW_MLSupervised
    ELSE IF Contains(q, P_training) /\ Contains(q, P_test) THEN KW_MLTrainTest
    ELSE IF Contains(q, P_overfitting) THEN KW_MLOverfitting
    ELSE IF Contains(q, P_evaluation) \/ Contains(q, P_metric) THEN KW_MLEvaluation
    ELSE <<>>

\* MachineLearningKeywords falling through to the key terms of the question
\* when no sub-pattern matches
MachineLearningKeywords_GenericFallback(q) ==
    IF Contains(q, P_differ) \/ Contains(q, P_traditional) THEN KW_MLDiffer
    ELSE IF Contains(q, P_supervised) /\ Contains(q, P_unsupervised) THEN KW_MLSupervised
    ELSE IF Contains(q, P_training) /\ Contains(q, P_test) THEN KW_MLTrainTest
    ELSE IF Contains(q, P_overfitting) THEN KW_MLOverfitting
    ELSE IF Contains(q, P_evaluation) \/ Contains(q, P_metric) THEN KW_MLEvaluation
    ELSE SetToSeq({term \in SplitTokens(q) : Len(term) > 3 /\ term \notin StopWords})

MachineLearningKeywords(q) ==
    IF Contains(q, P_differ) \/ Contains(q, P_traditional) THEN KW_MLDiffer
    ELSE IF Contains(q, P_supervised) /\ Contains(q, P_unsupervised) THEN KW_MLSupervised
    ELSE IF Contains(q, P_training) /\ Contains(q, P_test) THEN KW_MLTrainTest
    ELSE IF Contains(q, P_overfitting) THEN KW_MLOverfitting
    ELSE IF Contains(q, P_evaluation) \/ Contains(q, P_metric) THEN KW_MLEvaluation
    ELSE <<>>

NeuralKeywords(q) ==
    IF Contains(q, P_basic_structure) \/ Contains(q, P_structure) THEN KW_NNStructure
    ELSE IF Contains(q, P_activation) THEN KW_NNActivation
    ELSE IF Contains(q, P_cnn) \/ Contains(q, P_convolutional) THEN KW_NNCnn
    ELSE IF Contains(q, P_backpropagation) THEN KW_NNBackprop
    ELSE IF Contains(q, P_transfer) THEN KW_NNTransfer
    ELSE <<>>

DataKeywords(q) ==
    IF Contains(q, P_workflow) \/ Contains(q, P_steps) THEN KW_DataWorkflow
    ELSE IF Contains(q, P_descriptive) /\ Contains(q, P_inferential) THEN KW_DataDescriptive
    ELSE IF Contains(q, P_missing) THEN KW_DataMissing
    ELSE IF Contains(q, P_feature) /\ Contains(q, P_engineering) THEN KW_DataFeatureEng
    ELSE IF Contains(q, P_visualization) THEN KW_DataVisualization
    ELSE <<>>

\* the generic branch: key terms of the lecture title and the question
GenericKeywords(question_lower, lecture_lower) ==
    LET fromLecture == {term \in SplitTokens(lecture_lower) : Len(term) > 3}
        fromQuestion == {term \in SplitTokens(question_lower) :
                            Len(term) > 3 /\ term \notin StopWords}
    IN  SetToSeq(fromLecture \cup fromQuestion)

\* expected_keywords with the machine learning branch tested before the
\* python branch
ExpectedKeywords_MLFirst(question_lower, lecture_lower, course_lower) ==
    IF \/ Contains(question_lower, P_machine_learning)
       \/ Contains(lecture_lower, P_machine_learning)
       \/ Contains(course_lower, P_machine_learning)
    THEN MachineLearningKeywords(question_lower)
    ELSE IF Contains(question_lower, P_python) \/ Contains(lecture_lower, P_python)
    THEN PythonKeywords(question_lower)
    ELSE IF \/ Contains(question_lower, P_neural)
            \/ Contains(lecture_lower, P_deep_learning)
            \/ Contains(course_lower, P_deep_learning)
    THEN NeuralKeywords(question_lower)
    ELSE IF \/ Contains(question_lower, P_data)
            \/ Contains(lecture_lower, P_analytics)
            \/ Contains(course_lower, P_analytics)
    THEN DataKeywords(question_lower)
    ELSE GenericKeywords(question_lower, lecture_lower)

\* expected_keywords, from the lower-cased question, lecture title and course name
ExpectedKeywords(question_lower, lecture_lower, course_lower) ==
    IF Contains(question_lower, P_python) \/ Contains(lecture_lower, P_python)
    THEN PythonKeywords(question_lower)
    ELSE IF \/ Contains(question_lower, P_machine_learning)
            \/ Contains(lecture_lower, P_machine_learning)
            \/ Contains(course_lower, P_machine_learning)
    THEN MachineLearningKeywords(question_lower)
    ELSE IF \/ Contains(question_lower, P_neural)
            \/ Contains(lecture_lower, P_deep_learning)
            \/ Contains(course_lower, P_deep_learning)
    THEN NeuralKeywords(question_lower)
    ELSE IF \/ Contains(question_lower, P_data)
            \/ Contains(lecture_lower, P_analytics)
            \/ Contains(course_lower, P_analytics)
    THEN DataKeywords(question_lower)
    ELSE GenericKeywords(question_lower, lecture_lower)

\* KeywordMatches counting every occurrence of every keyword
KeywordMatches_Occurrences(expected_keywords, answer_lower) ==
    Cardinality({pair \in (DOMAIN expected_keywords) \X (0..Len(answer_lower)) :
                    /\ pair[2] + Len(expected_keywords[pair[1]]) <= Len(answer_lower)
                    /\ \A j \in 1..Len(expected_keywords[pair[1]]) :
                          answer_lower[pair[2] + j] = expected_keywords[pair[1]][j]})

\* keyword_matches = sum(1 for keyword in expected_keywords if keyword in answer_lower)
KeywordMatches(expected_keywords, answer_lower) ==
    Cardinality({i \in DOMAIN expected_keywords :
                    Contains(answer_lower, expected_keywords[i])})

\* length_adequate = len(answer) >= min_length
LengthAdequate(answer) == Len(answer) >= MinLength

\* BaseScore dividing by one keyword too many
BaseScore_OffByOne(keyword_matches, n) == (keyword_matches * 100) \div (n + 1)

\* int(match_ratio * 100) with match_ratio = keyword_matches / n: the float
\* product truncated toward zero.  For n < 50 the double-precision result is
\* the integer quotient of 100 * keyword_matches by n.
BaseScore(keyword_matches, n) ==
    LET truncated == (keyword_matches * 100) \div n
        floored == IF truncated < 0 THEN 0 ELSE truncated
    IN  IF floored > 100 THEN 100 ELSE floored

\* Penalize without the max(0, ...) clamp
Penalize_Unclamped(score, length_adequate) ==
    IF ~length_adequate THEN score - 30 ELSE score

\* Penalize taking 10 points instead of 30
Penalize_ByTen(score, length_adequate) ==
    IF ~length_adequate
    THEN (IF score - 10 > 0 THEN score - 10 ELSE 0)
    ELSE score

\* the penalty for inadequate length: score = max(0, score - 30)
Penalize(score, length_adequate) ==
    IF ~length_adequate
    THEN (IF score - 30 < 0 THEN 0 ELSE score - 30)
    ELSE score

\* Score subtracting the length penalty in the no-keyword branch too
Score_PenalizeAlways(keyword_matches, n, length_adequate) ==
    IF n = 0
    THEN Penalize(IF length_adequate THEN 70 ELSE 30, length_adequate)
    ELSE Penalize(BaseScore(keyword_matches, n), length_adequate)

\* score, for an answer that is not blank
Score(keyword_matches, n, length_adequate) ==
    IF n = 0
    THEN (IF length_adequate THEN 70 ELSE 30)
    ELSE Penalize(BaseScore(keyword_matches, n), length_adequate)

\* is_correct, for an answer that is not blank
IsCorrect(score, n, length_adequate) ==
    IF n = 0 THEN length_adequate ELSE score >= 60

\* the feedback chain with the length test moved behind the score tiers
Feedback_LengthLast(score, length_adequate) ==
    IF score >= 90 THEN ExcellentFeedback
    ELSE IF score >= 70 THEN GoodFeedback
    ELSE IF score >= 50 THEN PartialFeedback
    ELSE IF ~length_adequate THEN TooBriefFeedback
    ELSE NeedsImprovementFeedback

\* the feedback chain
Feedback(score, length_adequate) ==
    IF ~length_adequate THEN TooBriefFeedback
    ELSE IF score >= 90 THEN ExcellentFeedback
    ELSE IF score >= 70 THEN GoodFeedback
    ELSE IF score >= 50 THEN PartialFeedback
    ELSE NeedsImprovementFeedback

\* the dict returned for a blank answer (it has no keyword counts)
BlankResult(question, answer) ==
    [is_correct |-> FALSE,
     score |-> 0,
     feedback |-> NoAnswerFeedback,
     question |-> question,
     answer |-> answer]

\* the division of line 594 evaluated with no keyword to divide by
ZeroDivision_Unguarded(n) == n = 0

\* keyword_matches / len(expected_keywords) raises ZeroDivisionError when it
\* is evaluated with n = 0.  It is evaluated only in the else branch of
\* `if not expected_keywords` and only `if expected_keywords`.
ZeroDivision(n) ==
    /\ ~(n = 0)     \* else branch of `if not expected_keywords`
    /\ n # 0        \* `... if expected_keywords else 0`
    /\ n = 0        \* the divisor is zero

\* an exception leaving a function
Raised(exception) == [raised |-> exception]

analyze_student_answer(question, answer, lecture_title, course_name) ==
    IF IsBlank(answer) THEN BlankResult(question, answer)
    ELSE
    LET question_lower == Lower(question)
        answer_lower == Lower(answer)
        lecture_lower == Lower(lecture_title)
        course_lower == Lower(course_name)
        expected_keywords == ExpectedKeywords(question_lower, lecture_lower, course_lower)
        keyword_matches == KeywordMatches(expected_keywords, answer_lower)
        length_adequate == LengthAdequate(answer)
        score == Score(keyword_matches, Len(expected_keywords), length_adequate)
    IN  IF ZeroDivision(Len(expected_keywords)) THEN Raised("ZeroDivisionError")
        ELSE
        [is_correct |-> IsCorrect(score, Len(expected_keywords), length_adequate),
         score |-> score,
         feedback |-> Feedback(score, length_adequate),
         question |-> question,
         answer |-> answer,
         matched_keywords |-> keyword_matches,
         expected_keywords_count |-> Len(expected_keywords)]

---------------------------------------------------------------------------
(* POST /analyze-answers (main.py:434-481). *)

\* correct_count = sum(1 for result in results if result["is_correct"])
CorrectCount(results) ==
    Cardinality({i \in DOMAIN results : results[i].is_correct})

\* OverallScore with an integer division of the two counts
OverallScore_IntDiv(correct_count, total_count) ==
    IF total_count > 0
    THEN [num |-> (correct_count \div total_count) * 100, den |-> 1]
    ELSE [num |-> 0, den |-> 1]

\* overall_score = (correct_count / total_count) * 100 if total_count > 0 else 0,
\* kept as the exact fraction num / den
OverallScore(correct_count, total_count) ==
    IF total_count > 0
    THEN [num |-> correct_count * 100, den |-> total_count]
    ELSE [num |-> 0, den |-> 1]

\* AnalyzeEach pairing every question with the answers taken from the end
AnalyzeEach_Reversed(req) ==
    [i \in 1..(IF Len(req.questions) <= Len(req.answers)
               THEN Len(req.questions) ELSE Len(req.answers)) |->
        analyze_student_answer(req.questions[i],
                               req.answers[Len(req.answers) + 1 - i],
                               req.lecture_title, req.course_name)]

\* zip(request.questions, request.answers) fed through analyze_student_answer
AnalyzeEach(req) ==
    [i \in 1..(IF Len(req.questions) <= Len(req.answers)
               THEN Len(req.questions) ELSE Len(req.answers)) |->
        analyze_student_answer(req.questions[i], req.answers[i],
                               req.lecture_title, req.course_name)]

\* the handler's response without the length validation: zip truncates
AnalyzeAnswersResponse_NoLengthCheck(req) ==
    LET results == AnalyzeEach(req)
    IN  [status_code |-> 200,
         status |-> "success",
         overall_score |-> OverallScore(CorrectCount(results), Len(results)),
         results |-> results]

\* the handler's response to a request
AnalyzeAnswersResponse(req) ==
    IF Len(req.questions) # Len(req.answers)
    THEN [status_code |-> 400,
          status |-> "error",
          message |-> "Number of questions and answers must match",
          results |-> <<>>]
    ELSE LET results == AnalyzeEach(req)
         IN  IF \E i \in DOMAIN results : "raised" \in DOMAIN results[i]
             THEN \* except Exception (main.py:470-481)
                  [status_code |-> 500,
                   status |-> "error",
                   message |-> "Failed to analyze answers",
                   results |-> <<>>]
             ELSE [status_code |-> 200,
                   status |-> "success",
                   overall_score |-> OverallScore(CorrectCount(results), Len(results)),
                   results |-> results]

---------------------------------------------------------------------------
(* generate_topic_specific_questions (main.py:380-425) and the mock        *)
(* question generator used when AgentsAi cannot be imported                *)
(* (main.py:69-111).                                                       *)

\* Python values that can reach the questions field of a response
PyStr(text) == [type |-> "str", value |-> text]
PyInt(n) == [type |-> "int", value |-> n]
PyList(items) == [type |-> "list", items |-> items]
\* an object json.dumps cannot serialise
PyObject == [type |-> "object"]

\* a Python list of the given strings
StrList(texts) == PyList([i \in DOMAIN texts |-> PyStr(texts[i])])

\* the five templated default questions
DefaultQuestions(lecture_title, course_name) ==
    <<TplCoreConcepts \o lecture_title \o TplFullStop,
      TplHowDoes \o lecture_title \o TplRelate \o course_name \o TplQuestionMark,
      TplApplications \o lecture_title \o TplQuestionMark,
      TplChallenges \o lecture_title \o TplFullStop,
      TplHowHas \o lecture_title \o TplEvolved>>

\* the chain with the data branch tested before the machine learning branch
BankTopic_DataFirst(lecture_lower, course_lower) ==
    IF Contains(lecture_lower, P_python) \/ Contains(course_lower, P_python)
    THEN "python"
    ELSE IF Contains(lecture_lower, P_data) \/ Contains(course_lower, P_analytics)
    THEN "data"
    ELSE IF \/ Contains(lecture_lower, P_machine_learning)
            \/ Contains(course_lower, P_machine_learning)
    THEN "machine learning"
    ELSE IF Contains(lecture_lower, P_neural) \/ Contains(course_lower, P_deep_learning)
    THEN "neural"
    ELSE "default"

\* the if/elif chain of the bank, on the lower-cased title and course name
BankTopic(lecture_lower, course_lower) ==
    IF Contains(lecture_lower, P_python) \/ Contains(course_lower, P_python)
    THEN "python"
    ELSE IF \/ Contains(lecture_lower, P_machine_learning)
            \/ Contains(course_lower, P_machine_learning)
    THEN "machine learning"
    ELSE IF Contains(lecture_lower, P_neural) \/ Contains(course_lower, P_deep_learning)
    THEN "neural"
    ELSE IF Contains(lecture_lower, P_data) \/ Contains(course_lower, P_analytics)
    THEN "data"
    ELSE "default"

\* the fixed list of a topic of the bank
TopicQuestions(topic) ==
    IF topic = "python" THEN BankPython
    ELSE IF topic = "machine learning" THEN BankMachineLearning
    ELSE IF topic = "neural" THEN BankNeural
    ELSE BankData

\* generate_topic_specific_questions: both arguments are rebound to their
\* lower-cased form before the chain and before the templates use them
generate_topic_specific_questions(lecture_title, course_name) ==
    LET lecture_lower == Lower(lecture_title)
        course_lower == Lower(course_name)
        topic == BankTopic(lecture_lower, course_lower)
    IN  IF topic = "default"
        THEN StrList(DefaultQuestions(lecture_lower, course_lower))
        ELSE StrList(TopicQuestions(topic))

\* the if/elif chain of MockResult.generate_questions, which lower-cases the
\* arguments in each test
MockTopic(lecture_title, course_name) ==
    IF \/ Contains(Lower(lecture_title), P_python)
       \/ Contains(Lower(course_name), P_python)
    THEN "python"
    ELSE IF \/ Contains(Lower(lecture_title), P_machine_learning)
            \/ Contains(Lower(course_name), P_machine_learning)
    THEN "machine learning"
    ELSE IF \/ Contains(Lower(lecture_title), P_neural)
            \/ Contains(Lower(course_name), P_deep_learning)
    THEN "neural"
    ELSE IF \/ Contains(Lower(lecture_title), P_data)
            \/ Contains(Lower(course_name), P_analytics)
    THEN "data"
    ELSE "default"

\* the list MockResult.generate_questions dumps (its four fixed lists are the
\* same strings as the bank's); the templates use the arguments as given
MockQuestions(lecture_title, course_name) ==
    LET topic == MockTopic(lecture_title, course_name)
    IN  IF topic = "default"
        THEN DefaultQuestions(lecture_title, course_name)
        ELSE TopicQuestions(topic)

---------------------------------------------------------------------------
(* Text produced by the question source, and json / re on it.              *)
(*                                                                         *)
(* Such a text is kept as its sequence of lexical tokens: "[", "]", ",",   *)
(* a JSON string literal, a number, or a word of prose.  Whitespace        *)
(* between tokens is not kept: json.loads skips it and the patterns are    *)
(* compiled with re.DOTALL.  No string literal of these texts holds a      *)
(* square bracket.                                                         *)

TokOpen == [t |-> "["]
TokClose == [t |-> "]"]
TokComma == [t |-> ","]
TokWord == [t |-> "word"]
TokStr(text) == [t |-> "str", v |-> text]
TokNum(n) == [t |-> "num", v |-> n]

\* a Python str holding such a text
PyText(tokens) == [type |-> "str", value |-> tokens]

\* what json.loads raises on text that is not JSON
JSONDecodeError == [type |-> "JSONDecodeError"]

ParseFail == [ok |-> FALSE]

RECURSIVE ParseValue(_, _)
RECURSIVE ParseItems(_, _, _)

\* the JSON value that starts at token i, and the index after it
ParseValue(tokens, i) ==
    IF i > Len(tokens) THEN ParseFail
    ELSE IF tokens[i].t = "str"
    THEN [ok |-> TRUE, val |-> PyStr(tokens[i].v), next |-> i + 1]
    ELSE IF tokens[i].t = "num"
    THEN [ok |-> TRUE, val |-> PyInt(tokens[i].v), next |-> i + 1]
    ELSE IF tokens[i].t = "["
    THEN IF i + 1 <= Len(tokens) /\ tokens[i + 1].t = "]"
         THEN [ok |-> TRUE, val |-> PyList(<<>>), next |-> i + 2]
         ELSE ParseItems(tokens, i + 1, <<>>)
    ELSE ParseFail

\* the items of an array from token i on, after the items in acc
ParseItems(tokens, i, acc) ==
    LET item == ParseValue(tokens, i)
    IN  IF ~item.ok THEN ParseFail
        ELSE IF item.next > Len(tokens) THEN ParseFail
        ELSE IF tokens[item.next].t = ","
        THEN ParseItems(tokens, item.next + 1, Append(acc, item.val))
        ELSE IF tokens[item.next].t = "]"
        THEN [ok |-> TRUE, val |-> PyList(Append(acc, item.val)),
              next |-> item.next + 1]
        ELSE ParseFail

\* json.loads: the value of the whole text, or JSONDecodeError
JsonLoads(tokens) ==
    LET whole == ParseValue(tokens, 1)
    IN  IF whole.ok /\ whole.next = Len(tokens) + 1
        THEN whole.val
        ELSE JSONDecodeError

\* json.dumps of a list of strings
JsonDumps(texts) ==
    LET n == Len(texts)
    IN  <<TokOpen>>
        \o [k \in 1..(IF n = 0 THEN 0 ELSE 2 * n - 1) |->
              IF k % 2 = 1 THEN TokStr(texts[(k + 1) \div 2]) ELSE TokComma]
        \o <<TokClose>>

\* the pattern \[(.*)\] matches: some "[" is followed by a "]"
HasBracketSpan(tokens) ==
    \E i, j \in DOMAIN tokens :
        i < j /\ tokens[i].t = "[" /\ tokens[j].t = "]"

\* "[" + group(1) + "]" of the match: (.*) is greedy, so the span runs from
\* the first "[" to the last "]" of the text
BracketSpan(tokens) ==
    LET first == CHOOSE i \in DOMAIN tokens :
                    /\ tokens[i].t = "["
                    /\ \A k \in 1..(i - 1) : tokens[k].t # "["
        last == CHOOSE j \in DOMAIN tokens :
                    /\ tokens[j].t = "]"
                    /\ \A k \in (j + 1)..Len(tokens) : tokens[k].t # "]"
    IN  SubSeq(tokens, first, last)

\* re.sub(r'.*?\[(.*)\].*', r'[\1]', text): the same span when the pattern
\* matches, the text unchanged when it does not
CleanupSub(tokens) ==
    IF HasBracketSpan(tokens) THEN BracketSpan(tokens) ELSE tokens

---------------------------------------------------------------------------
(* POST /generate-quiz (main.py:233-378). *)

\* str(question_task_output) of an object without any of the attributes
ObjectRepr == PyText(<<TokWord>>)

\* the hasattr chain of main.py:296-305
RawQuestions(question_task_output) ==
    IF "raw_output" \in DOMAIN question_task_output
    THEN question_task_output.raw_output
    ELSE IF "raw" \in DOMAIN question_task_output
    THEN question_task_output.raw
    ELSE IF "output" \in DOMAIN question_task_output
    THEN question_task_output.output
    ELSE ObjectRepr

\* the questions the parsing block of main.py:309-334 arrives at
ParseQuestions(raw_questions, lecture_title, course_name) ==
    IF raw_questions.type = "str"
    THEN LET text == raw_questions.value
             first == IF HasBracketSpan(text)
                      THEN JsonLoads(BracketSpan(text))
                      ELSE JsonLoads(text)
             second == JsonLoads(CleanupSub(text))
         IN  IF first # JSONDecodeError THEN first
             ELSE IF second # JSONDecodeError THEN second
             ELSE generate_topic_specific_questions(lecture_title, course_name)
    ELSE raw_questions

\* MockCrew.kickoff: the second task output holds the dumped questions
MockTaskOutput(lecture_title, course_name) ==
    [name |-> "MockTaskOutput",
     raw |-> PyText(JsonDumps(MockQuestions(lecture_title, course_name)))]

\* the response with the hard-coded questions (main.py:251-265, 275-289)
StaticErrorResponse(message) ==
    [status_code |-> 500,
     status |-> "error",
     message |-> message,
     questions |-> StrList(StaticQuestions)]

\* the response of the handler's last except clause (main.py:363-378)
BankErrorResponse(req) ==
    [status_code |-> 500,
     status |-> "error",
     message |-> "Failed to generate questions",
     questions |-> generate_topic_specific_questions(req.lecture_title,
                                                     req.course_name)]

\* the response of except (AttributeError, IndexError) (main.py:335-353)
WarningResponse(req) ==
    [status_code |-> 200,
     status |-> "warning",
     message |-> "Used fallback questions due to error",
     questions |-> generate_topic_specific_questions(req.lecture_title,
                                                     req.course_name)]

\* the response built from a task output that could be read
OutputResponse(req, question_task_output) ==
    LET questions == ParseQuestions(RawQuestions(question_task_output),
                                    req.lecture_title, req.course_name)
    IN  IF questions = PyObject
        THEN \* JSONResponse cannot render it: TypeError, last except clause
             BankErrorResponse(req)
        ELSE [status_code |-> 200,
              status |-> "success",
              questions |-> questions]

\* the handler's response to req when the question source behaves as up does
GenerateQuizResponse(req, up) ==
    IF up.kind = "crew_error"
    THEN StaticErrorResponse("Error creating crew")
    ELSE IF up.kind = "kickoff_error"
    THEN StaticErrorResponse("Error during kickoff")
    ELSE IF up.kind \in {"AttributeError", "IndexError"}
    THEN WarningResponse(req)
    ELSE IF up.kind = "TypeError"
    THEN BankErrorResponse(req)
    ELSE IF up.kind = "mock"
    THEN OutputResponse(req, MockTaskOutput(req.lecture_title, req.course_name))
    ELSE OutputResponse(req, up.task)

---------------------------------------------------------------------------
(* The inputs the model draws from. *)

Questions ==
    {Q_MLDiffer, Q_MLTraditional, Q_MLPlain, Q_PyVariable, Q_DataMissing,
     Q_Generic, Q_Empty}
LectureTitles == {T_IntroML, T_PythonBasics, T_WhatPlants, T_Empty}
CourseNames == {C_CS101, C_IntroMachineLearning, C_Empty}

Bodies ==
    {B_Empty, B_Whitespace, B_Idk, B_ML6, B_ML5, B_ML4, B_ML3, B_ML2, B_ML1,
     B_ML6Short, B_ML5Short, B_Py5, B_Py3, B_Py5Short, B_Gen}

\* s followed by copies of ch up to length n
PadRight(s, n, ch) == s \o [i \in 1..(n - Len(s)) |-> ch]
\* s preceded by copies of ch up to length n
PadLeft(s, n, ch) == [i \in 1..(n - Len(s)) |-> ch] \o s

PadLengths == (MinLength - 1)..(MinLength + MaxExtra)

\* every body as it is, and padded around the length threshold with blanks
\* or with full stops
Answers ==
    Bodies
    \cup {PadRight(b, n, " ") : b \in Bodies, n \in PadLengths}
    \cup {PadLeft(b, n, " ") : b \in Bodies, n \in PadLengths}
    \cup {PadRight(b, n, ".") : b \in Bodies, n \in PadLengths}

\* questions, titles and course names in which topics and sub-patterns overlap
ResolutionQuestions ==
    {Q_PyML, Q_PyFeatureVariable, Q_OverfitDiffer, Q_NeuralStructure,
     Q_NeuralTransfer, Q_Activation, Q_DataVisualization}
ResolutionLectureTitles ==
    {T_NeuralNets, T_DataCleaning, T_DeepLearningIntro, T_WebAnalytics}
ResolutionCourseNames == {C_BusinessAnalytics, C_DeepLearning, C_PythonLab}
ResolutionAnswers ==
    {B_Idk, B_ML6, B_ML6Short, B_Py5, B_PyFeature, B_Gen, B_Repeat}

BatchQuestions == {Q_MLDiffer, Q_MLPlain, Q_Generic}
BatchAnswers == {B_Empty, B_Idk, B_ML6, B_ML4, B_Gen}

SeqsUpTo(S, n) == UNION {[1..k -> S] : k \in 0..n}

Requests ==
    [lecture_title : {T_IntroML, T_PythonBasics},
     course_name : {C_CS101},
     questions : SeqsUpTo(BatchQuestions, MaxPairs),
     answers : SeqsUpTo(BatchAnswers, MaxPairs)]

\* the calls of analyze_answers that run at the same time
Handlers == {"h1", "h2"}

\* the bodies of the requests they serve
ConcurrentRequests ==
    [lecture_title : {T_IntroML},
     course_name : {C_CS101},
     questions : SeqsUpTo({Q_MLDiffer}, MaxPairs),
     answers : SeqsUpTo({B_Idk, B_ML6}, MaxPairs)]

\* the threads that serve the requests to the course store
Threads == {"t1", "t2"}

\* the titles of the bodies of POST /api/courses
Titles == {"Algebra", "Biology"}

\* the titles of the bodies of PUT /api/courses/<int:course_id>
NewTitles == {"Algebra", "Calculus"}

\* the course_id of the paths /api/courses/<int:course_id>
CourseIds == 1..(MaxCourses + 1)

\* the bodies of POST /generate-quiz requests
QuizLectureTitles ==
    {T_PythonBasics, T_IntroML, T_NeuralNets, T_DataCleaning, T_WhatPlants, T_Empty}
QuizCourseNames ==
    {C_CS101, C_IntroMachineLearning, C_BusinessAnalytics, C_DeepLearning, C_PythonLab}
LectureRequests ==
    [lecture_title : QuizLectureTitles, course_name : QuizCourseNames]

\* the tokens the enumerated texts are made of
UpstreamTokens == {TokOpen, TokClose, TokComma, TokStr(Q_MLDiffer), TokWord}

\* every text of at most MaxTokens of these tokens
EnumeratedTexts == SeqsUpTo(UpstreamTokens, MaxTokens)

\* longer and other texts: an array of two questions inside prose, an array
\* followed by a stray "]", an array preceded by a bracketed remark, a
\* number, an array of a number
PickedTexts ==
    {<<TokWord, TokOpen, TokStr(Q_MLDiffer), TokComma, TokStr(Q_Generic),
       TokClose, TokWord>>,
     <<TokOpen, TokStr(Q_MLDiffer), TokComma, TokStr(Q_Generic), TokClose>>,
     <<TokOpen, TokStr(Q_MLDiffer), TokClose, TokWord, TokClose>>,
     <<TokOpen, TokWord, TokClose, TokOpen, TokStr(Q_MLDiffer), TokClose>>,
     <<TokOpen, TokClose>>,
     <<TokWord, TokWord>>,
     <<TokStr(Q_MLDiffer)>>,
     <<TokNum(7)>>,
     <<TokOpen, TokNum(7), TokClose>>}

\* a task output whose raw attribute holds the given value
TaskWithRaw(value) == [name |-> "TaskOutput", raw |-> value]

\* task outputs with other attributes, or whose raw is not a str
OtherTaskOutputs ==
    {[name |-> "TaskOutput",
      raw_output |-> PyText(<<TokOpen, TokStr(Q_Generic), TokClose>>),
      raw |-> PyText(<<TokWord>>)],
     [name |-> "TaskOutput",
      output |-> PyText(<<TokOpen, TokStr(Q_Generic), TokClose>>)],
     [name |-> "TaskOutput"],
     TaskWithRaw(PyList(<<>>)),
     TaskWithRaw(StrList(<<Q_Generic>>)),
     TaskWithRaw(PyInt(7)),
     TaskWithRaw([type |-> "NoneType"]),
     TaskWithRaw(PyObject)}

\* the kickoff returned a result whose second task output is task
ResultWith(task) == [kind |-> "result", task |-> task]

\* the behaviours of the question source tried with every request body:
\* AgentsAi().crew() raises; crew.kickoff raises (a timeout included);
\* result.tasks_output raises AttributeError, IndexError or TypeError;
\* the mock AgentsAi is in use; the kickoff returns a task output
CoreUpstreams ==
    {[kind |-> k] : k \in {"crew_error", "kickoff_error", "AttributeError",
                           "IndexError", "TypeError", "mock"}}
    \cup {ResultWith(TaskWithRaw(PyText(text))) : text \in PickedTexts}
    \cup {ResultWith(task) : task \in OtherTaskOutputs}

\* the behaviours tried with one request body: every enumerated text
TextUpstreams ==
    {ResultWith(TaskWithRaw(PyText(text))) : text \in EnumeratedTexts}

---------------------------------------------------------------------------
(* State and actions. *)

NoQuery == [called |-> FALSE]
NoResult == [returned |-> FALSE]
NoRequest == [received |-> FALSE]
NoResponse == [sent |-> FALSE]
NoUpstream == [kind |-> "none"]
NoHandlers == <<>>
NoCourse == [id |-> 0]
NoneCreating == [t \in Threads |-> NoCourse]

\* the calls that probe the grading: few contexts, every answer
GradingQueries ==
    [called : {TRUE},
     question : Questions,
     answer : Answers,
     lecture_title : LectureTitles,
     course_name : CourseNames]

\* the calls that probe the keyword resolution: every context, few answers
ResolutionQueries ==
    [called : {TRUE},
     question : Questions \cup ResolutionQuestions,
     answer : ResolutionAnswers,
     lecture_title : LectureTitles \cup ResolutionLectureTitles,
     course_name : CourseNames \cup ResolutionCourseNames]

Queries == GradingQueries \cup ResolutionQueries

\* a request has arrived at POST /analyze-answers and is not answered yet
Init ==
    /\ query = NoQuery
    /\ result = NoResult
    /\ request \in Requests
    /\ response = NoResponse
    /\ quizRequest = NoRequest
    /\ upstream = NoUpstream
    /\ quizResponse = NoResponse
    /\ handlers = NoHandlers
    /\ courses = <<>>
    /\ creating = NoneCreating

\* analyze_student_answer is about to be called with the arguments in query
InitAnalyze ==
    /\ query \in Queries
    /\ result = NoResult
    /\ request = NoRequest
    /\ response = NoResponse
    /\ quizRequest = NoRequest
    /\ upstream = NoUpstream
    /\ quizResponse = NoResponse
    /\ handlers = NoHandlers
    /\ courses = <<>>
    /\ creating = NoneCreating

\* a request has arrived at POST /generate-quiz and is not answered yet
InitQuiz ==
    /\ query = NoQuery
    /\ result = NoResult
    /\ request = NoRequest
    /\ response = NoResponse
    /\ \/ quizRequest \in LectureRequests /\ upstream \in CoreUpstreams
       \/ /\ quizRequest = [lecture_title |-> T_IntroML, course_name |-> C_CS101]
          /\ upstream \in TextUpstreams
    /\ quizResponse = NoResponse
    /\ handlers = NoHandlers
    /\ courses = <<>>
    /\ creating = NoneCreating

\* the call of analyze_student_answer, from arguments to returned dict
AnalyzeStudentAnswer ==
    /\ query # NoQuery
    /\ result = NoResult
    /\ result' = analyze_student_answer(query.question, query.answer,
                                        query.lecture_title, query.course_name)
    /\ UNCHANGED <<query, request, response>>
    /\ UNCHANGED quizVars
    /\ UNCHANGED handlers
    /\ UNCHANGED storeVars

\* the handler of POST /analyze-answers, from request body to response
AnalyzeAnswers ==
    /\ request # NoRequest
    /\ response = NoResponse
    /\ response' = AnalyzeAnswersResponse(request)
    /\ UNCHANGED <<query, result, request>>
    /\ UNCHANGED quizVars
    /\ UNCHANGED handlers
    /\ UNCHANGED storeVars

\* the handler of POST /generate-quiz, from request body to response
GenerateQuiz ==
    /\ quizRequest # NoRequest
    /\ quizResponse = NoResponse
    /\ quizResponse' = GenerateQuizResponse(quizRequest, upstream)
    /\ UNCHANGED <<query, result, request, response, quizRequest, upstream>>
    /\ UNCHANGED handlers
    /\ UNCHANGED storeVars

\* the frame of a call of analyze_answers that has just been entered: its
\* parameter, the statement it is at, and its locals
Entered(req) ==
    [request |-> req, at |-> "validate", results |-> <<>>, response |-> NoResponse]

\* the frames if results were one list shared by all the calls
Appended_SharedList(frames, h, analysis) ==
    [k \in DOMAIN frames |-> [frames[k] EXCEPT !.results = Append(@, analysis)]]

\* the frames after handler h did results.append(analysis): results is a
\* local of the call (main.py:451)
Appended(frames, h, analysis) ==
    [frames EXCEPT ![h].results = Append(@, analysis)]

\* the frames after handler h returned the response
Responded(frames, h, resp) ==
    [frames EXCEPT ![h].at = "returned", ![h].response = resp]

\* two requests have arrived at POST /analyze-answers at the same time
InitConcurrent ==
    /\ query = NoQuery
    /\ result = NoResult
    /\ request = NoRequest
    /\ response = NoResponse
    /\ quizRequest = NoRequest
    /\ upstream = NoUpstream
    /\ quizResponse = NoResponse
    /\ handlers \in [Handlers -> {Entered(req) : req \in ConcurrentRequests}]
    /\ courses = <<>>
    /\ creating = NoneCreating

UnchangedSequential ==
    UNCHANGED <<query, result, request, response, quizRequest, upstream,
                quizResponse, courses, creating>>

\* the input validation of main.py:440-448, then results = []
Validate(h) ==
    /\ handlers[h].at = "validate"
    /\ handlers' =
          IF Len(handlers[h].request.questions) # Len(handlers[h].request.answers)
          THEN Responded(handlers, h, AnalyzeAnswersResponse(handlers[h].request))
          ELSE [handlers EXCEPT ![h].at = "loop", ![h].results = <<>>]
    /\ UnchangedSequential

\* one turn of the loop of main.py:452-454
AnalyzePair(h) ==
    /\ handlers[h].at = "loop"
    /\ Len(handlers[h].results) < Len(handlers[h].request.questions)
    /\ LET req == handlers[h].request
           i == Len(handlers[h].results) + 1
           analysis == analyze_student_answer(req.questions[i], req.answers[i],
                                              req.lecture_title, req.course_name)
       IN  handlers' =
              IF "raised" \in DOMAIN analysis
              THEN Responded(handlers, h,
                             [status_code |-> 500,
                              status |-> "error",
                              message |-> "Failed to analyze answers",
                              results |-> <<>>])
              ELSE Appended(handlers, h, analysis)
    /\ UnchangedSequential

\* the overall score and the response of main.py:456-468
Respond(h) ==
    /\ handlers[h].at = "loop"
    /\ Len(handlers[h].results) = Len(handlers[h].request.questions)
    /\ LET results == handlers[h].results
       IN  handlers' =
              Responded(handlers, h,
                        [status_code |-> 200,
                         status |-> "success",
                         overall_score |->
                             OverallScore(CorrectCount(results), Len(results)),
                         results |-> results])
    /\ UnchangedSequential

\* the course store is empty and no request is being served
InitStore ==
    /\ query = NoQuery
    /\ result = NoResult
    /\ request = NoRequest
    /\ response = NoResponse
    /\ quizRequest = NoRequest
    /\ upstream = NoUpstream
    /\ quizResponse = NoResponse
    /\ handlers = NoHandlers
    /\ courses = <<>>
    /\ creating = NoneCreating

UnchangedAgents ==
    UNCHANGED <<query, result, request, response, quizRequest, upstream,
                quizResponse, handlers>>

\* next((c for c in courses if c['id'] == course_id), None): the index of the
\* first course with the id, 0 for None
FindCourse(list, course_id) ==
    IF \E i \in DOMAIN list : list[i].id = course_id
    THEN CHOOSE i \in DOMAIN list :
            /\ list[i].id = course_id
            /\ \A k \in 1..(i - 1) : list[k].id # course_id
    ELSE 0

\* the list without its element at index k
RemoveAt(list, k) == SubSeq(list, 1, k - 1) \o SubSeq(list, k + 1, Len(list))

\* the number of create_course calls in progress
InProgress == Cardinality({t \in Threads : creating[t] # NoCourse})

\* create_course up to the call of crew.kickoff (backend.py:67-93): new_course
\* is built, its id being len(courses) + 1
CreateCourseBegin(t, title) ==
    /\ creating[t] = NoCourse
    /\ Len(courses) + InProgress < MaxCourses
    /\ creating' = [creating EXCEPT ![t] = [id |-> Len(courses) + 1, title |-> title]]
    /\ UNCHANGED courses
    /\ UnchangedAgents

\* create_course after crew.kickoff returned (backend.py:94-97)
CreateCourseEnd(t) ==
    /\ creating[t] # NoCourse
    /\ courses' = Append(courses, creating[t])
    /\ creating' = [creating EXCEPT ![t] = NoCourse]
    /\ UnchangedAgents

\* update_course of a course that is found (backend.py:106-122)
UpdateCourse(course_id, title) ==
    /\ FindCourse(courses, course_id) # 0
    /\ courses' = [courses EXCEPT ![FindCourse(courses, course_id)].title = title]
    /\ UNCHANGED creating
    /\ UnchangedAgents

\* delete_course of a course that is found (backend.py:124-132)
DeleteCourse(course_id) ==
    /\ FindCourse(courses, course_id) # 0
    /\ courses' = RemoveAt(courses, FindCourse(courses, course_id))
    /\ UNCHANGED creating
    /\ UnchangedAgents

NextAnalyze == AnalyzeStudentAnswer

NextStore ==
    \/ \E t \in Threads, title \in Titles : CreateCourseBegin(t, title)
    \/ \E t \in Threads : CreateCourseEnd(t)
    \/ \E course_id \in CourseIds, title \in NewTitles : UpdateCourse(course_id, title)
    \/ \E course_id \in CourseIds : DeleteCourse(course_id)

NextConcurrent ==
    \E h \in Handlers : Validate(h) \/ AnalyzePair(h) \/ Respond(h)

NextQuiz == GenerateQuiz

Next == AnalyzeAnswers

\* the service answering a POST /analyze-answers request
Spec == Init /\ [][Next]_vars

\* analyze_student_answer applied to the inputs of the bounded sets
SpecAnalyze == InitAnalyze /\ [][NextAnalyze]_vars

\* two calls of analyze_answers whose statements interleave
SpecConcurrent == InitConcurrent /\ [][NextConcurrent]_vars

\* the course store of backend.py serving requests on its threads
SpecStore == InitStore /\ [][NextStore]_vars

\* the service answering a POST /generate-quiz request
SpecQuiz == InitQuiz /\ [][NextQuiz]_vars

---------------------------------------------------------------------------
(* Properties of analyze_student_answer, checked under SpecAnalyze. *)

\* the call has returned
Returned == result # NoResult

\* the answer holds a character that is not whitespace
NonBlankAnswer ==
    query # NoQuery /\ \E i \in DOMAIN query.answer : query.answer[i] \notin Whitespace

\* the keyword list the call's question, lecture title and course resolve to
Expected ==
    ExpectedKeywords(Lower(query.question), Lower(query.lecture_title),
                     Lower(query.course_name))

\* every expected keyword occurs in the answer, letter case ignored
AllKeywordsInAnswer ==
    \A i \in DOMAIN Expected : Contains(Lower(query.answer), Expected[i])

(* C1: a non-blank answer of at least 50 characters that contains every    *)
(* keyword of a non-empty expected keyword set gets score 100 and is       *)
(* marked correct.                                                         *)
C1_AllKeywordsFullScore ==
    (Returned /\ NonBlankAnswer /\ Len(query.answer) >= 50
        /\ Len(Expected) > 0 /\ AllKeywordsInAnswer)
    => (result.score = 100 /\ result.is_correct = TRUE)

C1_Witness ==
    /\ Returned /\ NonBlankAnswer /\ Len(query.answer) >= 50
    /\ Len(Expected) = 6 /\ AllKeywordsInAnswer
    /\ result.score = 100

(* C2: an empty or whitespace-only answer returns score 0, not correct,    *)
(* and the "No answer provided" feedback, whatever the context; no keyword *)
(* score, length penalty or feedback tier is applied.                      *)
C2_BlankAnswerShortCircuits ==
    (Returned /\ ~NonBlankAnswer)
    => /\ result.score = 0
       /\ result.is_correct = FALSE
       /\ result.feedback = "No answer provided. Please try to answer the question."

C2_Witness ==
    /\ Returned /\ ~NonBlankAnswer
    /\ Len(query.answer) >= 50
    /\ Len(Expected) > 0
    /\ result.score = 0

(* C3: every returned result, the one for a blank answer included, carries *)
(* a matched-keyword count and an expected-keyword count, and for a blank  *)
(* answer the matched-keyword count is 0.                                  *)
C3_ResultCarriesCounts ==
    Returned
    => /\ {"matched_keywords", "expected_keywords_count"} \subseteq DOMAIN result
       /\ (~NonBlankAnswer => result.matched_keywords = 0)

(* C4: a non-blank answer whose expected keyword set is empty gets score   *)
(* 70 and is correct when it has at least 50 characters, and otherwise     *)
(* gets score 30 and is not correct (30 is not lowered by the penalty).    *)
C4_NoKeywordsGradedOnLength ==
    (Returned /\ NonBlankAnswer /\ Len(Expected) = 0)
    => IF Len(query.answer) >= 50
       THEN result.score = 70 /\ result.is_correct = TRUE
       ELSE result.score = 30 /\ result.is_correct = FALSE

C4_Witness ==
    /\ Returned /\ NonBlankAnswer /\ Len(Expected) = 0
    /\ Len(query.answer) < 50
    /\ result.score = 30

(* C5: length adequacy is decided on the trimmed answer: a non-blank       *)
(* answer is treated as too brief exactly when its length without leading  *)
(* and trailing whitespace is below 50.                                    *)
C5_LengthAdequacyOnTrimmedAnswer ==
    (Returned /\ NonBlankAnswer)
    => (result.feedback = TooBriefFeedback <=> Len(Strip(query.answer)) < 50)

(* C6: for a non-blank answer of adequate length with n > 0 expected and m *)
(* matched keywords, the score is 100*m/n rounded to the nearest integer   *)
(* (within one half of the exact quotient) and lies in 0..100.             *)
C6_ScoreIsRoundedRatio ==
    (Returned /\ NonBlankAnswer /\ Len(query.answer) >= 50 /\ Len(Expected) > 0)
    => LET n == result.expected_keywords_count
           m == result.matched_keywords
           d == result.score * n - 100 * m
       IN  /\ result.score \in 0..100
           /\ 2 * d <= n
           /\ 2 * d >= 0 - n

(* C7: for a non-blank answer with a non-empty expected keyword set, the   *)
(* final score is the base score when the answer is length-adequate and    *)
(* max(0, base score - 30) when it is not; the answer is correct exactly   *)
(* when the final score is at least 60; and a short answer matching no     *)
(* keyword gets score 0, not correct, 0 matches and the too-brief feedback.*)
C7_PenaltyThenThreshold ==
    (Returned /\ NonBlankAnswer /\ Len(Expected) > 0)
    => LET base == BaseScore(result.matched_keywords,
                             result.expected_keywords_count)
           short == Len(query.answer) < 50
       IN  /\ result.score = IF short
                             THEN (IF base >= 30 THEN base - 30 ELSE 0)
                             ELSE base
           /\ result.is_correct = (result.score >= 60)
           /\ (short /\ result.matched_keywords = 0)
                => /\ result.score = 0
                   /\ result.is_correct = FALSE
                   /\ result.feedback =
                        "Your answer is too brief. Please provide a more detailed explanation."

C7_Witness ==
    /\ Returned /\ Len(Expected) > 0
    /\ query.answer = B_Idk
    /\ result.score = 0
    /\ result.matched_keywords = 0
    /\ result.feedback = TooBriefFeedback

(* C8: for a non-blank answer the feedback is decided by the length flag   *)
(* and the final score alone, first match in the order: not length-        *)
(* adequate, score >= 90, score >= 70, score >= 50, otherwise.             *)
C8_FeedbackChain ==
    (Returned /\ NonBlankAnswer)
    => result.feedback =
         IF Len(query.answer) < 50
         THEN "Your answer is too brief. Please provide a more detailed explanation."
         ELSE IF result.score >= 90
         THEN "Excellent answer! You've covered all the key concepts thoroughly."
         ELSE IF result.score >= 70
         THEN "Good answer. You've addressed most of the important points."
         ELSE IF result.score >= 50
         THEN "Partial answer. You've mentioned some relevant concepts, but missed others."
         ELSE "Your answer needs improvement. Try to include more specific details about key concepts."

C8_Witness ==
    /\ Returned /\ NonBlankAnswer
    /\ Len(query.answer) < 50
    /\ result.score >= 70
    /\ result.feedback = TooBriefFeedback

---------------------------------------------------------------------------
(* Properties of POST /analyze-answers, checked under Spec. *)

\* the handler has answered a request whose two lists are equally long
AnsweredEqualLists ==
    /\ response # NoResponse
    /\ Len(request.questions) = Len(request.answers)

\* the number of entries of the response's results marked correct
CorrectResults ==
    Cardinality({i \in DOMAIN response.results :
                    response.results[i].is_correct = TRUE})

(* C9: for equally long lists, overall_score is 100 * (results marked      *)
(* correct) / (number of results) when there are results, and 0 when both  *)
(* lists are empty.                                                        *)
C9_OverallScoreIsPercentCorrect ==
    AnsweredEqualLists
    => /\ "overall_score" \in DOMAIN response
       /\ IF Len(response.results) > 0
          THEN response.overall_score.num * Len(response.results)
                 = 100 * CorrectResults * response.overall_score.den
          ELSE response.overall_score.num = 0

C9_Witness ==
    /\ AnsweredEqualLists
    /\ Len(response.results) = 2
    /\ CorrectResults = 1
    /\ response.overall_score.num = 50 * response.overall_score.den

(* C10: a successful response has one result per submitted pair, in input  *)
(* order: results[i] is the analysis of questions[i] with answers[i] and   *)
(* echoes both unchanged.                                                  *)
C10_ResultsArePositional ==
    (response # NoResponse /\ response.status = "success")
    => /\ Len(response.results) = Len(request.questions)
       /\ Len(response.results) = Len(request.answers)
       /\ \A i \in DOMAIN response.results :
            /\ response.results[i].question = request.questions[i]
            /\ response.results[i].answer = request.answers[i]
            /\ response.results[i] =
                 analyze_student_answer(request.questions[i], request.answers[i],
                                        request.lecture_title, request.course_name)

C10_Witness ==
    /\ response # NoResponse /\ response.status = "success"
    /\ Len(response.results) = 2
    /\ request.questions[1] # request.questions[2]
    /\ request.answers[1] # request.answers[2]
    /\ response.results[2].answer = request.answers[2]
    /\ response.results[1].is_correct # response.results[2].is_correct

---------------------------------------------------------------------------
(* Further properties of POST /analyze-answers, checked under Spec. *)

(* C11: a request whose questions and answers lists differ in length is    *)
(* rejected with HTTP 400, status "error" and empty results; no pair is    *)
(* analysed and no overall score is returned.                              *)
C11_MismatchRejected ==
    (response # NoResponse /\ Len(request.questions) # Len(request.answers))
    => /\ response.status_code = 400
       /\ response.status = "error"
       /\ response.results = <<>>
       /\ "overall_score" \notin DOMAIN response

C11_Witness ==
    /\ response # NoResponse
    /\ Len(request.questions) = 2
    /\ Len(request.answers) = 1
    /\ response.status_code = 400

---------------------------------------------------------------------------
(* Further properties of analyze_student_answer, checked under SpecAnalyze. *)

(* C12: analyze_student_answer never raises: what a call returns, also     *)
(* with empty question, lecture title, course name or answer and with an   *)
(* empty keyword set, is never an exception (no division by zero) but a    *)
(* result with a score in 0..100, a boolean verdict and one of the         *)
(* feedback messages.                                                      *)
C12_NeverRaises ==
    Returned
    => /\ "raised" \notin DOMAIN result
       /\ result.score \in 0..100
       /\ result.is_correct \in BOOLEAN
       /\ result.feedback \in
            {NoAnswerFeedback, TooBriefFeedback, ExcellentFeedback,
             GoodFeedback, PartialFeedback, NeedsImprovementFeedback}

C12_Witness ==
    /\ Returned /\ NonBlankAnswer
    /\ query.question = <<>>
    /\ query.lecture_title = <<>>
    /\ query.course_name = <<>>
    /\ result.expected_keywords_count = 0
    /\ result.score = 70

\* the six keywords of the machine-learning "differ / traditional" question
SixMLKeywords ==
    {<<"d", "a", "t", "a">>,
     <<"p", "a", "t", "t", "e", "r", "n", "s">>,
     <<"a", "l", "g", "o", "r", "i", "t", "h", "m">>,
     <<"e", "x", "p", "l", "i", "c", "i", "t">>,
     <<"p", "r", "o", "g", "r", "a", "m", "m", "i", "n", "g">>,
     <<"l", "e", "a", "r", "n">>}

\* the question is a machine-learning question that python does not pre-empt
\* and that mentions "differ" or "traditional"
MLDifferContext ==
    /\ Contains(Lower(query.question), P_machine_learning)
    /\ ~Contains(Lower(query.question), P_python)
    /\ ~Contains(Lower(query.lecture_title), P_python)
    /\ \/ Contains(Lower(query.question), P_differ)
       \/ Contains(Lower(query.question), P_traditional)

(* C13: the machine-learning scenario of the specification (question on    *)
(* how machine learning differs from traditional programming, lecture      *)
(* "Intro to ML", course "CS101", the answer naming all six keywords)      *)
(* gives 6 expected and 6 matched keywords, score 100, correct and the     *)
(* excellent feedback; and every machine-learning question with "differ"   *)
(* or "traditional" that python does not pre-empt resolves to exactly the  *)
(* six keywords data, patterns, algorithm, explicit, programming, learn.   *)
C13_MLDifferScenario ==
    Returned
    => /\ MLDifferContext
           => /\ Len(Expected) = 6
              /\ {Expected[i] : i \in DOMAIN Expected} = SixMLKeywords
       /\ (/\ query.question = Q_MLDiffer
           /\ query.lecture_title = T_IntroML
           /\ query.course_name = C_CS101
           /\ query.answer = B_ML6)
           => /\ result.expected_keywords_count = 6
              /\ result.matched_keywords = 6
              /\ result.score = 100
              /\ result.is_correct = TRUE
              /\ result.feedback =
                   "Excellent answer! You've covered all the key concepts thoroughly."

C13_Witness ==
    /\ Returned
    /\ query.question = Q_MLDiffer
    /\ query.lecture_title = T_IntroML
    /\ query.course_name = C_CS101
    /\ query.answer = B_ML6
    /\ MLDifferContext
    /\ result.score = 100


---------------------------------------------------------------------------
(* POST /generate-quiz: what the claims speak of. *)

\* the handler has answered the request
QuizAnswered == quizResponse # NoResponse

\* a non-empty list of strings
IsQuestionList(value) ==
    /\ value.type = "list"
    /\ Len(value.items) > 0
    /\ \A i \in DOMAIN value.items : value.items[i].type = "str"

\* the creation of the crew or its kickoff failed
CallFailed == upstream.kind \in {"crew_error", "kickoff_error"}

\* the task output could not be read, or another exception was raised
OutputInaccessible == upstream.kind \in {"AttributeError", "IndexError", "TypeError"}

\* the text the question source returned, when it returned a str
ReturnedText == RawQuestions(upstream.task).value

ReturnedStr ==
    /\ upstream.kind = "result"
    /\ RawQuestions(upstream.task).type = "str"

\* the question source returned text in which json finds nothing to load
OutputUnparseable ==
    /\ ReturnedStr
    /\ JsonLoads(ReturnedText) = JSONDecodeError
    /\ \A i, j \in DOMAIN ReturnedText :
          JsonLoads(SubSeq(ReturnedText, i, j)).type # "list"

\* the questions of the bank for the request
BankQuestions ==
    generate_topic_specific_questions(quizRequest.lecture_title,
                                      quizRequest.course_name)

(* C14: every response of POST /generate-quiz, whatever its status, holds  *)
(* a non-empty list of question strings in its questions field.            *)
C14_AlwaysUsableQuestionList ==
    QuizAnswered => IsQuestionList(quizResponse.questions)

(* C15: when the creation of the crew fails, the kickoff fails or the      *)
(* output is unparseable, the response has status "warning" and is not a   *)
(* 500 "error"; and a response that carries the fallback questions after   *)
(* unparseable output is not labelled "success".                           *)
C15_FailureIsWarningOnly ==
    QuizAnswered /\ (CallFailed \/ OutputUnparseable)
    => /\ quizResponse.status = "warning"
       /\ quizResponse.status_code # 500

(* C16: on every upstream failure (crew creation error, kickoff error,     *)
(* inaccessible task output, unparseable output, other exception) the      *)
(* questions of the response are those the bank gives for the request's    *)
(* lecture_title and course_name.                                          *)
C16_FailureReturnsBankQuestions ==
    QuizAnswered /\ (CallFailed \/ OutputInaccessible \/ OutputUnparseable)
    => quizResponse.questions = BankQuestions

\* the templated default questions with the texts exactly as supplied
LiteralDefaultQuestions ==
    StrList(DefaultQuestions(quizRequest.lecture_title, quizRequest.course_name))

\* text holds pattern in some letter case
ContainsAnyCase(text, pattern) == Contains(Lower(text), pattern)

\* what each topic of the bank is recognised by, in the order of the chain
TopicOrder == <<"python", "machine learning", "neural", "data">>

TopicMatches(topic, lecture_title, course_name) ==
    IF topic = "python"
    THEN ContainsAnyCase(lecture_title, P_python)
         \/ ContainsAnyCase(course_name, P_python)
    ELSE IF topic = "machine learning"
    THEN ContainsAnyCase(lecture_title, P_machine_learning)
         \/ ContainsAnyCase(course_name, P_machine_learning)
    ELSE IF topic = "neural"
    THEN ContainsAnyCase(lecture_title, P_neural)
         \/ ContainsAnyCase(course_name, P_deep_learning)
    ELSE ContainsAnyCase(lecture_title, P_data)
         \/ ContainsAnyCase(course_name, P_analytics)

\* the first topic of the order that matches the request, "default" if none
FirstMatchingTopic ==
    LET matching == {i \in DOMAIN TopicOrder :
                        TopicMatches(TopicOrder[i], quizRequest.lecture_title,
                                     quizRequest.course_name)}
    IN  IF matching = {} THEN "default"
        ELSE TopicOrder[CHOOSE i \in matching : \A k \in matching : i <= k]

\* the topic whose fixed list the questions are, "default" if none
TopicOfQuestions(questions) ==
    IF questions = StrList(BankPython) THEN "python"
    ELSE IF questions = StrList(BankMachineLearning) THEN "machine learning"
    ELSE IF questions = StrList(BankNeural) THEN "neural"
    ELSE IF questions = StrList(BankData) THEN "data"
    ELSE "default"

\* the response carries the questions of the bank
AnsweredFromBank == QuizAnswered /\ OutputInaccessible

\* the response carries the questions of the mock generator
AnsweredFromMock == QuizAnswered /\ upstream.kind = "mock"

(* C17: when no topic matches the request, the questions the bank returns  *)
(* are the five templates filled with lecture_title and course_name        *)
(* exactly as the caller supplied them, letter case included.              *)
C17_DefaultUsesLiteralTitle ==
    AnsweredFromBank /\ FirstMatchingTopic = "default"
    => quizResponse.questions = LiteralDefaultQuestions

(* C18: the bank returns exactly five question strings, those of the first *)
(* topic that matches in the order python, machine learning, neural / deep *)
(* learning, data / analytics, default, matching substrings in any letter  *)
(* case; and the mock generator returns five questions of the same topic.  *)
C18_FirstMatchingTopicOfFive ==
    AnsweredFromBank \/ AnsweredFromMock
    => /\ IsQuestionList(quizResponse.questions)
       /\ Len(quizResponse.questions.items) = 5
       /\ TopicOfQuestions(quizResponse.questions) = FirstMatchingTopic
       /\ FirstMatchingTopic = "default" /\ AnsweredFromMock
          => quizResponse.questions = LiteralDefaultQuestions

\* a data lecture of a machine learning course, answered from the bank:
\* the earlier topic of the order wins
C18_Witness ==
    /\ AnsweredFromBank
    /\ TopicMatches("data", quizRequest.lecture_title, quizRequest.course_name)
    /\ TopicMatches("machine learning", quizRequest.lecture_title,
                    quizRequest.course_name)
    /\ ~TopicMatches("python", quizRequest.lecture_title, quizRequest.course_name)
    /\ quizResponse.questions = StrList(BankMachineLearning)

\* the index of the first "[" of a text that has one
FirstOpen(tokens) ==
    CHOOSE i \in DOMAIN tokens :
        /\ tokens[i].t = "["
        /\ \A k \in 1..(i - 1) : tokens[k].t # "["

\* the index of the first "]" after index open
FirstCloseAfter(tokens, open) ==
    CHOOSE j \in DOMAIN tokens :
        /\ j > open
        /\ tokens[j].t = "]"
        /\ \A k \in (open + 1)..(j - 1) : tokens[k].t # "]"

\* the first "[...]" span of a text that has one
FirstSpan(tokens) ==
    SubSeq(tokens, FirstOpen(tokens), FirstCloseAfter(tokens, FirstOpen(tokens)))

\* the returned text is not a JSON array, its first "[...]" span is one
FirstSpanIsArray ==
    /\ ReturnedStr
    /\ JsonLoads(ReturnedText).type # "list"
    /\ HasBracketSpan(ReturnedText)
    /\ JsonLoads(FirstSpan(ReturnedText)).type = "list"

(* C19: when the returned text is not itself a JSON array but its first    *)
(* "[...]" span parses as one, the questions of the response are that      *)
(* array, whatever "[" or "]" the text holds elsewhere; the bank is used   *)
(* only when the span does not parse.                                      *)
C19_FirstSpanExtracted ==
    QuizAnswered /\ FirstSpanIsArray
    => /\ quizResponse.status = "success"
       /\ quizResponse.questions = JsonLoads(FirstSpan(ReturnedText))

---------------------------------------------------------------------------
(* Concurrent POST /analyze-answers requests. *)

\* handler h has returned its response
HasReturned(h) == handlers # NoHandlers /\ handlers[h].at = "returned"

\* the results handler h has collected are those of its own pairs, in order
OwnResults(h) ==
    LET frame == handlers[h]
    IN  /\ Len(frame.results) <= Len(frame.request.questions)
        /\ Len(frame.results) <= Len(frame.request.answers)
        /\ \A i \in DOMAIN frame.results :
               frame.results[i] =
                   analyze_student_answer(frame.request.questions[i],
                                          frame.request.answers[i],
                                          frame.request.lecture_title,
                                          frame.request.course_name)

(* C20: however the statements of concurrent /analyze-answers calls        *)
(* interleave, each call collects only the results of its own pairs and    *)
(* returns the response it would return when run alone; two calls with the *)
(* same request body return the same response.                             *)
C20_ResponseAsIfAlone ==
    handlers # NoHandlers
    => /\ \A h \in Handlers : OwnResults(h)
       /\ \A h \in Handlers :
             HasReturned(h)
             => handlers[h].response = AnalyzeAnswersResponse(handlers[h].request)
       /\ \A h, k \in Handlers :
             /\ HasReturned(h) /\ HasReturned(k)
             /\ handlers[h].request = handlers[k].request
             => handlers[h].response = handlers[k].response

\* both calls have returned 200 with two results each, and their results
\* and overall scores differ
C20_Witness ==
    /\ HasReturned("h1") /\ HasReturned("h2")
    /\ handlers["h1"].response.status_code = 200
    /\ handlers["h2"].response.status_code = 200
    /\ Len(handlers["h1"].response.results) = 2
    /\ Len(handlers["h2"].response.results) = 2
    /\ handlers["h1"].response.results # handlers["h2"].response.results
    /\ handlers["h1"].response.overall_score # handlers["h2"].response.overall_score

---------------------------------------------------------------------------
(* Keyword resolution as a decision list. *)

\* whether a question, lecture title and course name, all in lower case,
\* select the topic
SelectsTopic(topic, question, lecture_title, course_name) ==
    IF topic = "python"
    THEN \/ Contains(question, P_python)
         \/ Contains(lecture_title, P_python)
    ELSE IF topic = "machine learning"
    THEN \/ Contains(question, P_machine_learning)
         \/ Contains(lecture_title, P_machine_learning)
         \/ Contains(course_name, P_machine_learning)
    ELSE IF topic = "neural"
    THEN \/ Contains(question, P_neural)
         \/ Contains(lecture_title, P_deep_learning)
         \/ Contains(course_name, P_deep_learning)
    ELSE \/ Contains(question, P_data)
         \/ Contains(lecture_title, P_analytics)
         \/ Contains(course_name, P_analytics)

\* the least number of a non-empty set of numbers
Least(S) == CHOOSE i \in S : \A k \in S : i <= k

\* the positions in the order of the topics that the call selects
MatchingTopics ==
    LET question == Lower(query.question)
        lecture_title == Lower(query.lecture_title)
        course_name == Lower(query.course_name)
    IN  {i \in DOMAIN TopicOrder :
            SelectsTopic(TopicOrder[i], question, lecture_title, course_name)}

\* the first topic of the order that the call selects, "generic" if none
QueryTopic ==
    LET matching == MatchingTopics
    IN  IF matching = {} THEN "generic" ELSE TopicOrder[Least(matching)]

\* a sub-pattern: the question must hold one of the patterns of any (when
\* there are some) and each pattern of all
SubPattern(any, all, keywords) == [any |-> any, all |-> all, keywords |-> keywords]

SubPatternMatches(row, question) ==
    /\ row.any = {} \/ \E p \in row.any : Contains(question, p)
    /\ \A p \in row.all : Contains(question, p)

\* the sub-patterns of each topic, in the listed order
SubPatterns(topic) ==
    IF topic = "python"
    THEN <<SubPattern({P_feature, P_popular}, {}, KW_PythonFeature),
           SubPattern({}, {P_variable}, KW_PythonVariable),
           SubPattern({}, {P_list, P_tuple}, KW_PythonListTuple),
           SubPattern({P_module, P_package}, {}, KW_PythonModule),
           SubPattern({}, {P_exception}, KW_PythonException)>>
    ELSE IF topic = "machine learning"
    THEN <<SubPattern({P_differ, P_traditional}, {}, KW_MLDiffer),
           SubPattern({}, {P_supervised, P_unsupervised}, KW_MLSupervised),
           SubPattern({}, {P_training, P_test}, KW_MLTrainTest),
           SubPattern({}, {P_overfitting}, KW_MLOverfitting),
           SubPattern({P_evaluation, P_metric}, {}, KW_MLEvaluation)>>
    ELSE IF topic = "neural"
    THEN <<SubPattern({}, {P_structure}, KW_NNStructure),
           SubPattern({}, {P_activation}, KW_NNActivation),
           SubPattern({P_cnn, P_convolutional}, {}, KW_NNCnn),
           SubPattern({}, {P_backpropagation}, KW_NNBackprop),
           SubPattern({}, {P_transfer}, KW_NNTransfer)>>
    ELSE IF topic = "data"
    THEN <<SubPattern({P_workflow, P_steps}, {}, KW_DataWorkflow),
           SubPattern({}, {P_descriptive, P_inferential}, KW_DataDescriptive),
           SubPattern({}, {P_missing}, KW_DataMissing),
           SubPattern({}, {P_feature, P_engineering}, KW_DataFeatureEng),
           SubPattern({}, {P_visualization}, KW_DataVisualization)>>
    ELSE <<>>

\* the positions of the sub-patterns of the topic that match the call's question
MatchingSubPatterns(topic) ==
    LET rows == SubPatterns(topic)
        question == Lower(query.question)
    IN  {i \in DOMAIN rows : SubPatternMatches(rows[i], question)}

\* the keywords of the first sub-pattern of the topic that matches the
\* call's question, none when no sub-pattern matches
ListedKeywords(topic) ==
    LET matching == MatchingSubPatterns(topic)
    IN  IF matching = {} THEN <<>>
        ELSE SubPatterns(topic)[Least(matching)].keywords

\* the number of the given keywords the answer holds, letter case ignored
FoundIn(keywords) ==
    LET answer == Lower(query.answer)
    IN  Cardinality({i \in DOMAIN keywords : Contains(answer, keywords[i])})

(* C21: the expected keywords are those of the first topic, in the order   *)
(* python, machine learning, neural / deep learning, data / analytics,     *)
(* that matches the question, lecture title and course name as listed,     *)
(* letter case ignored, and within it of the first sub-pattern in the      *)
(* listed order that matches the question; the generic extractor is used   *)
(* exactly when no topic matches.                                          *)
C21_FirstMatchWins ==
    Returned /\ NonBlankAnswer
    => LET topic == QueryTopic
           expected == Expected
           listed == ListedKeywords(topic)
       IN  IF topic = "generic"
           THEN /\ expected = GenericKeywords(Lower(query.question),
                                              Lower(query.lecture_title))
                /\ result.expected_keywords_count = Len(expected)
           ELSE /\ expected = listed
                /\ result.expected_keywords_count = Len(listed)
                /\ result.matched_keywords = FoundIn(listed)

\* a question that mentions python and machine learning and holds two
\* python sub-patterns, in a machine learning course: the first python
\* sub-pattern decides
C21_Witness ==
    /\ Returned /\ NonBlankAnswer
    /\ result.expected_keywords_count = Len(KW_PythonFeature)
    /\ result.matched_keywords > 0
    /\ Cardinality(MatchingTopics) >= 2
    /\ QueryTopic = "python"
    /\ Cardinality(MatchingSubPatterns("python")) >= 2
    /\ ContainsAnyCase(query.course_name, P_machine_learning)

\* what the generic extractor gives for the call
GenericOfQuery ==
    GenericKeywords(Lower(query.question), Lower(query.lecture_title))

(* C22: when one of the four named topics matches the call and none of its *)
(* sub-patterns matches the question, no keyword is expected (the generic  *)
(* extractor is not used) and a non-blank answer is graded on its length   *)
(* alone: score 70 and correct with at least 50 characters, score 30 and   *)
(* incorrect otherwise, with expected and matched keyword counts 0.        *)
C22_TopicWithoutSubPatternIsEmpty ==
    Returned /\ NonBlankAnswer
    => LET topic == QueryTopic
       IN  topic # "generic" /\ MatchingSubPatterns(topic) = {}
           => /\ Expected = <<>>
              /\ result.expected_keywords_count = 0
              /\ result.matched_keywords = 0
              /\ result.score = IF Len(query.answer) >= 50 THEN 70 ELSE 30
              /\ result.is_correct = (Len(query.answer) >= 50)

\* a machine learning question without sub-pattern, with an answer of
\* adequate length that holds key terms the generic extractor would expect
C22_Witness ==
    /\ Returned /\ NonBlankAnswer
    /\ result.score = 70 /\ result.is_correct
    /\ QueryTopic = "machine learning"
    /\ MatchingSubPatterns("machine learning") = {}
    /\ FoundIn(GenericOfQuery) > 0

\* the elements of a sequence
Elements(seq) == {seq[i] : i \in DOMAIN seq}

\* the whitespace-separated lower-case tokens of the lecture title and of the
\* question that are longer than 3 characters and are not stopwords
SignificantTokens ==
    {term \in SplitTokens(Lower(query.lecture_title))
              \cup SplitTokens(Lower(query.question)) :
        Len(term) > 3 /\ term \notin StopWords}

(* C23: when no topic matches, the expected keywords are, each once, the   *)
(* lower-case whitespace-separated tokens of the lecture title and of the  *)
(* question that are longer than 3 characters and not in the stopword      *)
(* list, the stopwords being excluded from the lecture title's tokens as   *)
(* from the question's.                                                    *)
C23_GenericExcludesStopwords ==
    Returned /\ NonBlankAnswer /\ QueryTopic = "generic"
    => LET expected == Expected
       IN  /\ Elements(expected) = SignificantTokens
           /\ Len(expected) = Cardinality(SignificantTokens)
           /\ result.expected_keywords_count = Cardinality(SignificantTokens)

\* the expected keywords that occur in the call's answer, letter case ignored
KeywordsInAnswer(expected) ==
    LET answer == Lower(query.answer)
    IN  {keyword \in Elements(expected) : Contains(answer, keyword)}

\* the number of places of text at which sub occurs
Occurrences(text, sub) ==
    Cardinality({i \in 0..(Len(text) - Len(sub)) :
                    \A j \in 1..Len(sub) : text[i + j] = sub[j]})

(* C24: for every non-blank answer the matched keyword count is the number *)
(* of distinct expected keywords that occur in the answer, letter case     *)
(* ignored, each counted once however often it occurs; so it lies between  *)
(* 0 and the expected keyword count.                                       *)
C24_MatchedCountsDistinctKeywords ==
    Returned /\ NonBlankAnswer
    => /\ result.matched_keywords = Cardinality(KeywordsInAnswer(Expected))
       /\ 0 <= result.matched_keywords
       /\ result.matched_keywords <= result.expected_keywords_count

\* an answer in which an expected keyword occurs several times, in several
\* letter cases
C24_Witness ==
    /\ Returned /\ NonBlankAnswer
    /\ result.matched_keywords = 2
    /\ result.expected_keywords_count = 6
    /\ Occurrences(Lower(query.answer), KW_MLDiffer[1]) >= 3
    /\ Occurrences(query.answer, KW_MLDiffer[1]) < Occurrences(Lower(query.answer), KW_MLDiffer[1])

(* C25: a non-blank answer shorter than 50 characters never scores above   *)
(* 70 and, when keywords are expected, is marked correct only if at least  *)
(* 90% of them are matched; and a result with the "too brief" feedback and *)
(* no expected keyword is never marked correct.                            *)
C25_BriefAnswerCaps ==
    Returned /\ NonBlankAnswer
    => /\ Len(query.answer) < 50
          => /\ result.score <= 70
             /\ result.expected_keywords_count > 0 /\ result.is_correct
                => result.matched_keywords * 10 >= result.expected_keywords_count * 9
       /\ result.feedback = TooBriefFeedback /\ result.expected_keywords_count = 0
          => ~result.is_correct

\* a "too brief" answer that holds every expected keyword is marked correct
\* with score 70
C25_Witness ==
    /\ Returned /\ NonBlankAnswer
    /\ Len(query.answer) < 50
    /\ result.feedback = TooBriefFeedback
    /\ result.expected_keywords_count > 0
    /\ result.matched_keywords = result.expected_keywords_count
    /\ result.score = 70
    /\ result.is_correct

---------------------------------------------------------------------------
(* The course store of backend.py. *)

(* C26: whatever create_course and delete_course calls have been served,   *)
(* one after the other or interleaved, no two courses of the list have the *)
(* same id.                                                                *)
C26_CourseIdsUnique ==
    \A i, k \in DOMAIN courses : i # k => courses[i].id # courses[k].id

=======================================================================
